---- MODULE Spec2Model ----
(***************************************************************************)
(* SatTrack: the satellite store (src/db.py), the enrichment scripts that  *)
(* promote values into canonical, and the three graph builders             *)
(* (populate_orbital_proximity.py, populate_constellation_network.py,      *)
(* populate_registration_network.py).                                      *)
(*                                                                         *)
(* Encoding of Python / JSON values                                        *)
(*   None / null          None == <<"z">>                                  *)
(*   a string v           S(v) == <<"s", v>>                               *)
(*   a number             N(n) == <<"n", n>>, n an integer in fixed point: *)
(*                        km and degrees in hundredths, eccentricity in    *)
(*                        1e-4, identifiers (norad_cat_id) as they are     *)
(*   a dict               a function whose DOMAIN is the set of keys       *)
(*   a str used as a key  a sequence of one-character strings, so that     *)
(*                        str.replace can be computed                      *)
(*   datetime.now()       the opaque value TS                              *)
(***************************************************************************)
EXTENDS Integers, Sequences, FiniteSets, TLC

VARIABLES
    satellites,   \* the satellites collection: _key -> stored document
    document,     \* the in-memory document handed to update_canonical
    last,         \* the last operation and its arguments
    upserted,     \* the identifiers create_satellite_document was called with
    reg_docs,     \* the registration_documents collection: _key -> node
    reg_edges,    \* the registration edge collection
    const_edges,  \* the constellation edge collection
    prox_edges,   \* the proximity edge collection
    run           \* what the last builder run computed and reported

vars == <<satellites, document, last, upserted, reg_docs, reg_edges, const_edges,
          prox_edges, run>>

----------------------------------------------------------------------------
(* Values *)

None == <<"z">>

S(v) == <<"s", v>>

N(n) == <<"n", n>>

TS == S("<now>")

EmptyDict == [k \in {} |-> None]

\* dict.get(key): the value, None when the key is absent
Get(d, k) == IF k \in DOMAIN d THEN d[k] ELSE None

\* {**a, **b}: keys of both, b wins
MergeFlat(a, b) ==
    [k \in (DOMAIN a) \cup (DOMAIN b) |-> IF k \in DOMAIN b THEN b[k] ELSE a[k]]

IsNum(v) == Len(v) = 2 /\ v[1] = "n"

Range(s) == {s[i] : i \in 1..Len(s)}

----------------------------------------------------------------------------
(* Identifier -> _key, db.py 201-208 *)

RECURSIVE Replace(_, _, _)
\* str.replace(old, new) for a one-character old
Replace(str, old, new) ==
    IF str = <<>> THEN <<>>
    ELSE (IF Head(str) = old THEN new ELSE <<Head(str)>>) \o Replace(Tail(str), old, new)

SatelliteKey(identifier) ==
    Replace(Replace(Replace(Replace(Replace(Replace(Replace(identifier,
        "/", <<"_">>), ":", <<"_">>), ".", <<"_">>),
        "*", <<"_", "S", "T", "A", "R", "_">>),
        " ", <<"_">>), "(", <<"_">>), ")", <<"_">>)

----------------------------------------------------------------------------
(* Canonical Resolver, db.py 231-284 *)

DEFAULT_SOURCE_PRIORITY == <<"unoosa", "celestrak", "tleapi", "kaggle">>

canonical_fields ==
    <<"name", "object_name", "country_of_origin", "international_designator",
      "registration_number", "norad_cat_id", "date_of_launch", "function", "status",
      "registration_document", "un_registered", "gso_location",
      "date_of_decay_or_change", "secretariat_remarks", "external_website",
      "launch_vehicle", "place_of_launch", "object_type", "rcs", "orbital_band",
      "congestion_risk">>

orbital_fields == <<"apogee_km", "perigee_km", "inclination_degrees", "period_minutes">>

tle_fields == <<"tle_line1", "tle_line2">>

\* a resolver that scans the sources in the order they were inserted
EffectivePriorityInsertionOrder(source_priority, sources, sources_order) ==
    sources_order

\* line 239: the listed sources that are present, then the unlisted ones in
\* the iteration order of the sources dict
EffectivePriority(source_priority, sources, sources_order) ==
    SelectSeq(source_priority, LAMBDA s : s \in DOMAIN sources)
        \o SelectSeq(sources_order, LAMBDA s : s \notin Range(source_priority))

ScalarAccepts(value) == value # None /\ value # S("")

OrbitAccepts(value) == value # None

\* the inner loop: positions of the priority list whose source holds an
\* accepted value for the field; the loop breaks at the first
Holders(field, prio, sources, scalar) ==
    {i \in 1..Len(prio) :
        /\ prio[i] \in DOMAIN sources
        /\ IF scalar THEN ScalarAccepts(Get(sources[prio[i]], field))
           ELSE OrbitAccepts(Get(sources[prio[i]], field))}

FirstValue(field, prio, sources, scalar) ==
    LET h == Holders(field, prio, sources, scalar)
        i == CHOOSE j \in h : \A k \in h : j <= k
    IN  sources[prio[i]][field]

\* lines 252-258
ResolveScalars(prio, sources, sources_order) ==
    LET fs == {f \in Range(canonical_fields) :
                  Holders(f, prio, sources, TRUE) # {}}
    IN  [f \in fs |-> FirstValue(f, prio, sources, TRUE)]

\* lines 260-268
ResolveOrbit(prio, sources) ==
    LET fs == {f \in Range(orbital_fields) :
                  Holders(f, prio, sources, FALSE) # {}}
    IN  [f \in fs |-> FirstValue(f, prio, sources, FALSE)]

TleName(field) == IF field = "tle_line1" THEN "line1" ELSE "line2"

\* lines 270-279
ResolveTle(prio, sources) ==
    LET fs == {f \in Range(tle_fields) :
                  Holders(f, prio, sources, FALSE) # {}}
    IN  [c \in {TleName(f) : f \in fs} |->
            FirstValue(CHOOSE f \in fs : TleName(f) = c, prio, sources, FALSE)]

\* the canonical dict built by update_canonical for an in-memory document;
\* doc.sources_order is the iteration order of the dict doc.sources
Canonical(doc) ==
    LET source_priority ==
            IF "source_priority" \in DOMAIN doc.metadata
            THEN doc.metadata.source_priority ELSE DEFAULT_SOURCE_PRIORITY
        prio == EffectivePriority(source_priority, doc.sources, doc.sources_order)
    IN  MergeFlat(ResolveScalars(prio, doc.sources, doc.sources_order),
                  [orbit |-> ResolveOrbit(prio, doc.sources),
                   tle |-> ResolveTle(prio, doc.sources),
                   updated_at |-> TS,
                   source_priority |-> prio])

update_canonical(doc) == [doc EXCEPT !.canonical = Canonical(doc)]

----------------------------------------------------------------------------
(* Satellite Store, db.py 156-228 *)

DEFAULT_NEW_PRIORITY == <<"unoosa", "celestrak", "tleapi", "kaggle">>

\* ArangoDB does not keep the insertion order of object attributes: a
\* document read back lists its attributes in the server's own order
DB_ATTRIBUTE_ORDER == <<"celestrak", "kaggle", "spacetrack", "tleapi", "unoosa">>

\* characters of the model that ArangoDB accepts in a document key
KEY_CHARS == {"A", "B", "S", "T", "R", "0", "1", "2", "3", "4", "5", "6", "7",
              "8", "9", "_", "-", ":", ".", "(", ")", "*"}

ValidKey(key) == key # <<>> /\ Range(key) \subseteq KEY_CHARS

\* lines 174-185: FOR doc IN satellites FILTER doc.identifier == @identifier
FindByIdentifier(coll, identifier) ==
    {k \in DOMAIN coll : coll[k].identifier = identifier}

\* the document as the driver returns it: a dict whose sources iterate in
\* the server's attribute order
Load(stored) ==
    MergeFlat(stored,
        [sources_order |-> SelectSeq(DB_ATTRIBUTE_ORDER,
                                     LAMBDA s : s \in DOMAIN stored.sources)])

\* what is sent to the server: the dict without the iteration order
Dump(doc) == [k \in (DOMAIN doc) \ {"sources_order"} |-> doc[k]]

\* an upsert that appends the source to the order at every call
SetSourceAlwaysAppends(doc, source, data) ==
    [doc EXCEPT
        !.sources = MergeFlat(@, [s \in {source} |-> MergeFlat(data, [updated_at |-> TS])]),
        !.sources_order = Append(@, source)]

\* existing["sources"][source] = {**data, "updated_at": now}: lines 188-191
SetSource(doc, source, data) ==
    [doc EXCEPT
        !.sources = MergeFlat(@, [s \in {source} |-> MergeFlat(data, [updated_at |-> TS])]),
        !.sources_order = IF source \in DOMAIN doc.sources THEN @ ELSE Append(@, source)]

\* an update branch that resolves incrementally: a canonical field resolved
\* by an earlier upsert keeps its value
UpdatedDocumentIncremental(existing, source, data) ==
    LET e1 == SetSource(existing, source, data)
        e2 == [e1 EXCEPT !.metadata =
                  MergeFlat(@, [sources_available |-> e1.sources_order,
                                last_updated_at |-> TS])]
    IN  [e2 EXCEPT !.canonical = MergeFlat(Canonical(e2), existing.canonical)]

\* lines 187-195: the in-memory document after the update branch
UpdatedDocument(existing, source, data) ==
    LET e1 == SetSource(existing, source, data)
        e2 == [e1 EXCEPT !.metadata =
                  MergeFlat(@, [sources_available |-> e1.sources_order,
                                last_updated_at |-> TS])]
    IN  update_canonical(e2)

\* lines 200-225: the in-memory document of the create branch
NewDocument(identifier, source, data) ==
    update_canonical(
        [_key |-> SatelliteKey(identifier),
         identifier |-> identifier,
         canonical |-> EmptyDict,
         sources |-> [s \in {source} |-> MergeFlat(data, [updated_at |-> TS])],
         sources_order |-> <<source>>,
         metadata |-> [created_at |-> TS,
                       last_updated_at |-> TS,
                       sources_available |-> <<source>>,
                       source_priority |-> DEFAULT_NEW_PRIORITY]])

\* one level of the server's object merge: a key of new replaces the key of
\* old, except that two dicts under a key of nested are merged key by key
MergeNested(old, new, nested) ==
    [k \in (DOMAIN old) \cup (DOMAIN new) |->
        IF k \notin DOMAIN new THEN old[k]
        ELSE IF k \in DOMAIN old /\ k \in nested THEN MergeFlat(old[k], new[k])
        ELSE new[k]]

\* line 197, collection.update(existing): python-arango's update() patches
\* the stored document with merge=True and keep_none=True, so sub-dicts
\* (sources and each source sub-record, canonical with orbit and tle,
\* metadata) are merged into the stored ones, lists are replaced
UpdateDocument(old, new) ==
    [k \in (DOMAIN old) \cup (DOMAIN new) |->
        IF k \notin DOMAIN new THEN old[k]
        ELSE IF k = "sources" THEN MergeNested(old[k], new[k], DOMAIN old[k])
        ELSE IF k = "canonical" THEN MergeNested(old[k], new[k], {"orbit", "tle"})
        ELSE IF k = "metadata" THEN MergeFlat(old[k], new[k])
        ELSE new[k]]

\* the collection after create_satellite_document(identifier, source, data);
\* a failed insert (line 226 raises) leaves it as it was
StoreAfterUpsert(coll, identifier, source, data) ==
    LET found == FindByIdentifier(coll, identifier)
    IN  IF found # {}
        THEN LET k == CHOOSE x \in found : TRUE
                 existing == UpdatedDocument(Load(coll[k]), source, data)
             IN  [coll EXCEPT ![k] = UpdateDocument(@, Dump(existing))]
        ELSE LET doc == NewDocument(identifier, source, data)
             IN  IF ValidKey(doc._key) /\ doc._key \notin DOMAIN coll
                 THEN MergeFlat(coll, [k \in {doc._key} |-> Dump(doc)])
                 ELSE coll

\* an upsert that reads the record again inside the write, as a transaction
\* or a per-identifier lock would make it
StoreAfterWriteLocked(seen, coll, identifier, source, data) ==
    StoreAfterUpsert(coll, identifier, source, data)

\* create_satellite_document split at its two database calls: the query of
\* lines 174-185 ran on the collection seen, and the write of line 197 or
\* 226 meets the collection coll. The update patches the record by its
\* _key; the insert raises when the key or the identifier is taken by now.
StoreAfterWrite(seen, coll, identifier, source, data) ==
    LET found == FindByIdentifier(seen, identifier)
    IN  IF found # {}
        THEN LET k == CHOOSE x \in found : TRUE
                 existing == UpdatedDocument(Load(seen[k]), source, data)
             IN  [coll EXCEPT ![k] = UpdateDocument(@, Dump(existing))]
        ELSE LET doc == NewDocument(identifier, source, data)
             IN  IF /\ ValidKey(doc._key)
                    /\ doc._key \notin DOMAIN coll
                    /\ FindByIdentifier(coll, identifier) = {}
                 THEN MergeFlat(coll, [k \in {doc._key} |-> Dump(doc)])
                 ELSE coll

UpsertOutcome(coll, identifier, source, data) ==
    IF FindByIdentifier(coll, identifier) # {} THEN "updated"
    ELSE IF ValidKey(SatelliteKey(identifier))
             /\ SatelliteKey(identifier) \notin DOMAIN coll THEN "created"
    ELSE "failed"

NoRun == [op |-> "none"]

create_satellite_document(identifier, source, data) ==
    /\ satellites' = StoreAfterUpsert(satellites, identifier, source, data)
    /\ last' = [op |-> "upsert", identifier |-> identifier, source |-> source,
                data |-> data,
                outcome |-> UpsertOutcome(satellites, identifier, source, data),
                repeat |-> /\ last.op = "upsert"
                           /\ last.identifier = identifier
                           /\ last.source = source
                           /\ last.data = data]
    /\ upserted' = upserted \cup {identifier}
    /\ UNCHANGED <<document, reg_docs, reg_edges, const_edges, prox_edges, run>>

----------------------------------------------------------------------------
(* Enrichment scripts: they write canonical with AQL UPDATE *)

MaxTransformations == 4

\* doc.a.b in AQL: null when a or b is missing
Nested(doc, a, b) ==
    IF a \in DOMAIN doc /\ b \in DOMAIN doc[a] THEN doc[a][b] ELSE None

Nested3(doc, a, b, c) ==
    IF a \in DOMAIN doc /\ b \in DOMAIN doc[a] /\ c \in DOMAIN doc[a][b]
    THEN doc[a][b][c] ELSE None

\* truth value of a scalar in AQL (a || b) and in Python (if x): null, 0 and
\* the empty string are false
Truthy(v) == v # None /\ v # N(0) /\ v # S("")

Or(a, b) == IF Truthy(a) THEN a ELSE b

Transformations(doc) ==
    IF "transformations" \in DOMAIN doc.metadata
    THEN doc.metadata.transformations ELSE <<>>

Transformation(source_field, target_field, value, promoted_by) ==
    [timestamp |-> TS, source_field |-> source_field,
     target_field |-> target_field, value |-> value, promoted_by |-> promoted_by]

\* UPDATE doc WITH { canonical: MERGE(doc.canonical, c),
\*                   metadata: MERGE(doc.metadata, {transformations: APPEND(..),
\*                                                  last_updated_at: @timestamp}) }
Promote(doc, c, transformations) ==
    [doc EXCEPT
        !.canonical = MergeFlat(@, c),
        !.metadata = MergeFlat(@,
            [transformations |-> Transformations(doc) \o transformations,
             last_updated_at |-> TS])]

\* promote_launch_site.py 76-103
LaunchSiteMatches(doc) == Nested3(doc, "sources", "spacetrack", "launch_site") # None

PromoteLaunchSiteDoc(doc) ==
    LET site == Nested3(doc, "sources", "spacetrack", "launch_site")
    IN  Promote(doc, [launch_site |-> site],
                <<Transformation("sources.spacetrack.launch_site",
                                 "canonical.launch_site", site,
                                 "promote_launch_site_script")>>)

\* promote_kaggle_orbital.py 27
EARTH_RADIUS_M == 6378137

\* ROUND(n / d) in AQL: the closest integer, halves towards +infinity
RoundDiv(n, d) == (2 * n + d) \div (2 * d)

\* promote_kaggle_orbital.py 160-168
KaggleOrbitalMatches(doc) ==
    /\ Nested3(doc, "sources", "kaggle", "altitude_km") # None
    /\ Nested3(doc, "sources", "kaggle", "inclination") # None
    /\ \/ Nested3(doc, "canonical", "orbit", "apogee_km") = None
       \/ Nested3(doc, "canonical", "orbit", "perigee_km") = None
       \/ Nested3(doc, "canonical", "orbit", "inclination_degrees") = None

\* lines 170-178, in hundredths of a km: apogee = a * (1 + e) - R with
\* a = altitude + R, that is altitude + a * e; eccentricity is in 1e-4
KaggleApogee(altitude, eccentricity) ==
    altitude + RoundDiv((altitude * 10 + EARTH_RADIUS_M) * eccentricity, 100000)

KagglePerigee(altitude, eccentricity) ==
    altitude + RoundDiv(0 - (altitude * 10 + EARTH_RADIUS_M) * eccentricity, 100000)

\* 1440.0 / mean_motion, in hundredths of a minute; mean_motion in hundredths
KagglePeriod(mean_motion) ==
    IF IsNum(mean_motion) /\ mean_motion[2] > 0
    THEN N(RoundDiv(14400000, mean_motion[2])) ELSE None

\* promote_kaggle_orbital.py 170-230
PromoteKaggleOrbitalDoc(doc) ==
    LET altitude_km == Nested3(doc, "sources", "kaggle", "altitude_km")[2]
        e == Nested3(doc, "sources", "kaggle", "eccentricity")
        eccentricity == IF Truthy(e) THEN e[2] ELSE 0
        inclination == Nested3(doc, "sources", "kaggle", "inclination")
        apogee == N(KaggleApogee(altitude_km, eccentricity))
        perigee == N(KagglePerigee(altitude_km, eccentricity))
        period == KagglePeriod(Nested3(doc, "sources", "kaggle", "mean_motion"))
        orbit == IF "orbit" \in DOMAIN doc.canonical THEN doc.canonical.orbit ELSE EmptyDict
        by == "promote_kaggle_orbital_script"
    IN  Promote(doc,
            [orbit |-> MergeFlat(orbit,
                [inclination_degrees |-> Or(Get(orbit, "inclination_degrees"), inclination),
                 apogee_km |-> Or(Get(orbit, "apogee_km"), apogee),
                 perigee_km |-> Or(Get(orbit, "perigee_km"), perigee),
                 period_minutes |-> Or(Get(orbit, "period_minutes"), period)])],
            <<Transformation("sources.kaggle.inclination",
                             "canonical.orbit.inclination_degrees", inclination, by),
              Transformation("sources.kaggle.altitude_km+eccentricity",
                             "canonical.orbit.apogee_km", apogee, by),
              Transformation("sources.kaggle.altitude_km+eccentricity",
                             "canonical.orbit.perigee_km", perigee, by)>>
            \o (IF period # None
                THEN <<Transformation("sources.kaggle.mean_motion",
                                      "canonical.orbit.period_minutes", period, by)>>
                ELSE <<>>))

\* enrich_launch_data.py 180-193
LaunchDataMatches(doc) ==
    \/ Nested(doc, "canonical", "launch_date") = None
    \/ Nested(doc, "canonical", "country") = None

\* enrich_launch_data.py 207-246: the changes for one satellite, as
\* <<launch_date or None, its source, country or None, its source>>
LaunchDataChanges(doc, gcat_data) ==
    LET norad == Nested(doc, "canonical", "norad_cat_id")
        in_gcat == Truthy(norad) /\ norad \in DOMAIN gcat_data
        unoosa_launch == Nested3(doc, "sources", "unoosa", "date_of_launch")
        unoosa_country == Nested3(doc, "sources", "unoosa", "country_of_origin")
        kaggle_country == Nested3(doc, "sources", "kaggle", "country")
        launch ==
            IF Nested(doc, "canonical", "launch_date") # None THEN <<None, "">>
            ELSE IF Truthy(unoosa_launch) THEN <<unoosa_launch, "unoosa">>
            ELSE IF in_gcat /\ Truthy(gcat_data[norad].launch_date)
                 THEN <<gcat_data[norad].launch_date, "gcat">>
            ELSE <<None, "">>
        country ==
            IF Nested(doc, "canonical", "country") # None THEN <<None, "">>
            ELSE IF Truthy(unoosa_country) THEN <<unoosa_country, "unoosa">>
            ELSE IF Truthy(kaggle_country) THEN <<kaggle_country, "kaggle">>
            ELSE IF in_gcat /\ Truthy(gcat_data[norad].state)
                 THEN <<gcat_data[norad].state, "gcat">>
            ELSE <<None, "">>
    IN  launch \o country

\* enrich_launch_data.py 277-331
EnrichLaunchDataDoc(doc, gcat_data) ==
    LET ch == LaunchDataChanges(doc, gcat_data)
        by == "enrich_launch_data"
        c1 == IF ch[1] # None THEN [launch_date |-> ch[1]] ELSE EmptyDict
        c2 == IF ch[3] # None THEN [country |-> ch[3]] ELSE EmptyDict
        t1 == IF ch[1] # None
              THEN <<Transformation(IF ch[2] = "unoosa"
                                    THEN "sources.unoosa.date_of_launch"
                                    ELSE "gcat.launch_date",
                                    "canonical.launch_date", ch[1], by)>>
              ELSE <<>>
        t2 == IF ch[3] # None
              THEN <<Transformation(IF ch[4] = "unoosa"
                                    THEN "sources.unoosa.country_of_origin"
                                    ELSE IF ch[4] = "kaggle"
                                    THEN "sources.kaggle.country"
                                    ELSE "gcat.state",
                                    "canonical.country", ch[3], by)>>
              ELSE <<>>
    IN  IF LaunchDataMatches(doc) /\ (ch[1] # None \/ ch[3] # None)
        THEN Promote(doc, MergeFlat(c1, c2), t1 \o t2)
        ELSE doc

\* a script run over the collection: FOR doc IN coll FILTER ... UPDATE doc,
\* updated maps the keys of the matching documents to the updated documents
RunOver(coll, updated) ==
    [k \in DOMAIN coll |-> IF k \in DOMAIN updated THEN updated[k] ELSE coll[k]]

LogsBounded(coll) ==
    \A k \in DOMAIN coll : Len(Transformations(coll[k])) <= MaxTransformations

Enrichment(op, after, applied) ==
    /\ LogsBounded(after)
    /\ satellites' = after
    /\ last' = [op |-> op, applied |-> applied]
    /\ UNCHANGED <<document, upserted, reg_docs, reg_edges, const_edges, prox_edges, run>>

\* promote_launch_site.py 10-145; proceed = not dry_run and the operator
\* answered yes
promote_launch_site(proceed) ==
    Enrichment("promote_launch_site",
               IF proceed
               THEN RunOver(satellites,
                         [k \in {x \in DOMAIN satellites :
                                    LaunchSiteMatches(satellites[x])} |->
                             PromoteLaunchSiteDoc(satellites[k])])
               ELSE satellites,
               proceed /\ \E k \in DOMAIN satellites : LaunchSiteMatches(satellites[k]))

\* promote_kaggle_orbital.py 68-289
promote_kaggle_orbital(proceed) ==
    Enrichment("promote_kaggle_orbital",
               IF proceed
               THEN RunOver(satellites,
                         [k \in {x \in DOMAIN satellites :
                                    KaggleOrbitalMatches(satellites[x])} |->
                             PromoteKaggleOrbitalDoc(satellites[k])])
               ELSE satellites,
               proceed /\ \E k \in DOMAIN satellites : KaggleOrbitalMatches(satellites[k]))

\* enrich_launch_data.py 101-390
enrich_launch_data(dry_run, gcat_data) ==
    Enrichment("enrich_launch_data",
               IF dry_run THEN satellites
               ELSE RunOver(satellites,
                            [k \in {x \in DOMAIN satellites :
                                       LaunchDataMatches(satellites[x])} |->
                                EnrichLaunchDataDoc(satellites[k], gcat_data)]),
               ~dry_run /\ \E k \in DOMAIN satellites :
                               EnrichLaunchDataDoc(satellites[k], gcat_data) # satellites[k])

----------------------------------------------------------------------------
(* Sequences and ordering used by the builders' queries *)

\* the characters of the model in collation order
CHAR_ORDER ==
    <<" ", "(", ")", "*", "-", ".", "/", "0", "1", "2", "3", "4", "5", "6", "7",
      "8", "9", ":", "A", "B", "R", "S", "T", "_">>

CharIndex(c) == CHOOSE i \in 1..Len(CHAR_ORDER) : CHAR_ORDER[i] = c

RECURSIVE LexLess(_, _)
\* a < b for two strings
LexLess(a, b) ==
    IF b = <<>> THEN FALSE
    ELSE IF a = <<>> THEN TRUE
    ELSE IF Head(a) = Head(b) THEN LexLess(Tail(a), Tail(b))
    ELSE CharIndex(Head(a)) < CharIndex(Head(b))

RECURSIVE SortByIdentifier(_)
\* SORT doc.identifier ASC over a set of documents with distinct identifiers
SortByIdentifier(docs) ==
    IF docs = {} THEN <<>>
    ELSE LET first == CHOOSE d \in docs :
                          \A e \in docs \ {d} : LexLess(d.identifier, e.identifier)
         IN  <<first>> \o SortByIdentifier(docs \ {first})

RECURSIVE Concat(_)
\* the concatenation of a sequence of sequences
Concat(ss) == IF ss = <<>> THEN <<>> ELSE Head(ss) \o Concat(Tail(ss))

RECURSIVE Distinct(_)
\* the elements of a sequence in order of first appearance
Distinct(seq) ==
    IF seq = <<>> THEN <<>>
    ELSE LET rest == Distinct(SubSeq(seq, 1, Len(seq) - 1))
         IN  IF seq[Len(seq)] \in Range(rest) THEN rest ELSE Append(rest, seq[Len(seq)])

Min(a, b) == IF a <= b THEN a ELSE b

Abs(x) == IF x < 0 THEN 0 - x ELSE x

\* insert_many(batch) into an edge collection, one result per document: an
\* edge document carries no _key, the database assigns one, and the edge is
\* refused only when _from or _to is not a legal document id
EdgeResults(batch) ==
    [i \in 1..Len(batch) |->
        ValidKey(batch[i]._from[2]) /\ ValidKey(batch[i]._to[2])]

InsertEdges(batch) == {batch[i] : i \in {j \in 1..Len(batch) : EdgeResults(batch)[j]}}

\* sum(1 for r in results if not isinstance(r, Exception))
CountInserted(results) == Cardinality({i \in 1..Len(results) : results[i]})

\* a count that charges the whole batch when one document failed
CountErrorsChargingBatch(results) ==
    IF \E i \in 1..Len(results) : ~results[i] THEN Len(results) ELSE 0

\* sum(1 for r in results if isinstance(r, Exception))
CountErrors(results) == Cardinality({i \in 1..Len(results) : ~results[i]})

BATCH_SIZE == 1000

RECURSIVE Batches(_)
\* for i in range(0, len(edges), batch_size): batch = edges[i:i + batch_size]
Batches(edges) ==
    IF edges = <<>> THEN <<>>
    ELSE IF Len(edges) <= BATCH_SIZE THEN <<edges>>
    ELSE <<SubSeq(edges, 1, BATCH_SIZE)>>
             \o Batches(SubSeq(edges, BATCH_SIZE + 1, Len(edges)))

\* the counts of the insert loop, batch by batch
BatchCounts(edges) ==
    LET batches == Batches(edges)
    IN  [b \in 1..Len(batches) |->
            LET results == EdgeResults(batches[b])
            IN  [size |-> Len(batches[b]),
                 batch_inserted |-> CountInserted(results),
                 batch_errors |-> CountErrors(results)]]

RECURSIVE TotalInserted(_)
\* total_inserted += batch_inserted
TotalInserted(counts) ==
    IF counts = <<>> THEN 0
    ELSE Head(counts).batch_inserted + TotalInserted(Tail(counts))

RECURSIVE TotalErrors(_)
\* total_errors += batch_errors
TotalErrors(counts) ==
    IF counts = <<>> THEN 0
    ELSE Head(counts).batch_errors + TotalErrors(Tail(counts))

\* insert_many(batch) into an emptied document collection: a document whose
\* _key is not a legal key, or is the _key of a document before it in the
\* batch that was inserted, comes back as an error
InsertedPositions(batch) ==
    {i \in 1..Len(batch) :
        /\ ValidKey(batch[i]._key)
        /\ \A j \in 1..(i - 1) : batch[j]._key # batch[i]._key}

InsertKeyed(batch) ==
    [k \in {batch[i]._key : i \in InsertedPositions(batch)} |->
        batch[CHOOSE i \in InsertedPositions(batch) : batch[i]._key = k]]

\* the results insert_many returns for the batch, one per document
KeyedResults(batch) == [i \in 1..Len(batch) |-> i \in InsertedPositions(batch)]

----------------------------------------------------------------------------
(* Proximity Graph Builder, populate_orbital_proximity.py *)

APOGEE_THRESHOLD_KM == 5000

PERIGEE_THRESHOLD_KM == 5000

INCLINATION_THRESHOLD_DEG == 500

MAX_EDGES_PER_SATELLITE == 10

SatelliteId(key) == <<"satellites", key>>

\* lines 68-85: the satellites with a complete orbital triple and a band,
\* optionally of one band, sorted by identifier
ProximityQuery(coll, orbital_band_filter) ==
    SortByIdentifier(
        {[_key |-> coll[k]._key,
          identifier |-> coll[k].identifier,
          orbital_band |-> coll[k].canonical.orbital_band,
          apogee_km |-> coll[k].canonical.orbit.apogee_km[2],
          perigee_km |-> coll[k].canonical.orbit.perigee_km[2],
          inclination_degrees |-> coll[k].canonical.orbit.inclination_degrees[2]] :
         k \in {x \in DOMAIN coll :
                   /\ Nested3(coll[x], "canonical", "orbit", "apogee_km") # None
                   /\ Nested3(coll[x], "canonical", "orbit", "perigee_km") # None
                   /\ Nested3(coll[x], "canonical", "orbit", "inclination_degrees") # None
                   /\ Nested(coll[x], "canonical", "orbital_band") # None
                   /\ (orbital_band_filter # None
                          => coll[x].canonical.orbital_band = orbital_band_filter)}})

\* lines 95-97: the bands in the order the sorted list meets them
BandOrder(sats) == Distinct([i \in 1..Len(sats) |-> sats[i].orbital_band])

BandSatellites(sats, band) == SelectSeq(sats, LAMBDA sat : sat.orbital_band = band)

\* a score that divides the inclination difference by the apogee threshold
calculate_proximity_score_one_threshold(sat1, sat2) ==
    LET apogee_diff == Abs(sat1.apogee_km - sat2.apogee_km)
        perigee_diff == Abs(sat1.perigee_km - sat2.perigee_km)
        inclination_diff == Abs(sat1.inclination_degrees - sat2.inclination_degrees)
    IN  apogee_diff * apogee_diff + perigee_diff * perigee_diff
            + inclination_diff * inclination_diff

\* lines 27-35, times 25,000,000: the differences are in hundredths
calculate_proximity_score(sat1, sat2) ==
    LET apogee_diff == Abs(sat1.apogee_km - sat2.apogee_km)
        perigee_diff == Abs(sat1.perigee_km - sat2.perigee_km)
        inclination_diff == Abs(sat1.inclination_degrees - sat2.inclination_degrees)
    IN  apogee_diff * apogee_diff + perigee_diff * perigee_diff
            + 100 * inclination_diff * inclination_diff

\* a comparison that tests the apogee only
WithinThresholdsApogeeOnly(sat1, sat2) ==
    Abs(sat1.apogee_km - sat2.apogee_km) <= APOGEE_THRESHOLD_KM

\* lines 125-127
WithinThresholds(sat1, sat2) ==
    /\ Abs(sat1.apogee_km - sat2.apogee_km) <= APOGEE_THRESHOLD_KM
    /\ Abs(sat1.perigee_km - sat2.perigee_km) <= PERIGEE_THRESHOLD_KM
    /\ Abs(sat1.inclination_degrees - sat2.inclination_degrees) <= INCLINATION_THRESHOLD_DEG

\* lines 131-145: one entry of a satellite's candidate list
Candidate(sat1, sat2) ==
    [target |-> sat2._key,
     score |-> calculate_proximity_score(sat1, sat2),
     apogee_diff |-> Abs(sat1.apogee_km - sat2.apogee_km),
     perigee_diff |-> Abs(sat1.perigee_km - sat2.perigee_km),
     inclination_diff |-> Abs(sat1.inclination_degrees - sat2.inclination_degrees)]

\* a double loop that appends a candidate to the list of sat1 only
PartnersOfFirstOnly(band_satellites) ==
    [i \in 1..Len(band_satellites) |->
        SelectSeq([j \in 1..Len(band_satellites) |-> j],
                  LAMBDA j : j > i /\ WithinThresholds(band_satellites[i],
                                                       band_satellites[j]))]

\* lines 116-145: for each position i of the band list, the positions of the
\* satellites appended to satellite_edges[key of i]. The double loop appends
\* the partners before i (when i is sat2) and then those after i (when i is
\* sat1), so in ascending position
Partners(band_satellites) ==
    [i \in 1..Len(band_satellites) |->
        SelectSeq([j \in 1..Len(band_satellites) |-> j],
                  LAMBDA j : j # i /\ WithinThresholds(band_satellites[i],
                                                       band_satellites[j]))]

\* when the double loop first appends to satellite_edges[key of i]: at the
\* pair (p, i) as sat2 if its first partner p is before i, else at the pair
\* (i, p) as sat1; the pairs run in lexicographic order
FirstAppend(partners, i) ==
    LET n == Len(partners)
        p == partners[i][1]
    IN  IF p < i THEN (p * (n + 1) + i) * 2 + 1 ELSE (i * (n + 1) + p) * 2

\* the keys of satellite_edges in insertion order, as positions of the band list
EdgeKeyOrder(partners) ==
    LET with == {i \in 1..Len(partners) : partners[i] # <<>>}
        at == [i \in with |-> FirstAppend(partners, i)]
        rank == [i \in with |-> Cardinality({k \in with : at[k] < at[i]})]
    IN  [r \in 1..Cardinality(with) |-> CHOOSE i \in with : rank[i] = r - 1]

\* a sort that leaves the candidates in the order they were appended
SortByScoreAppendOrder(edges) == edges

\* line 148, edges.sort(key=score): a stable sort, equal scores keep their order
SortByScore(edges) ==
    LET rank == [m \in 1..Len(edges) |->
                    Cardinality({k \in 1..Len(edges) :
                        \/ edges[k].score < edges[m].score
                        \/ edges[k].score = edges[m].score /\ k < m})]
    IN  [r \in 1..Len(edges) |-> edges[CHOOSE m \in 1..Len(edges) : rank[m] = r - 1]]

\* round(x, 4) of x = score / 25,000,000, in 1e-4: the nearest integer to
\* score / 2500, a half going to the even one
RoundScore(score) ==
    LET q == score \div 2500
        r == score % 2500
    IN  IF r > 1250 \/ (r = 1250 /\ q % 2 = 1) THEN q + 1 ELSE q

TopEdgesUncapped(edges) == SortByScore(edges)

\* lines 148-149
TopEdges(edges) ==
    LET sorted == SortByScore(edges)
    IN  SubSeq(sorted, 1, Min(Len(sorted), MAX_EDGES_PER_SATELLITE))

\* lines 152-160
ProximityEdge(sat_key, edge, band) ==
    [_from |-> SatelliteId(sat_key),
     _to |-> SatelliteId(edge.target),
     orbital_band |-> band,
     proximity_score |-> RoundScore(edge.score),
     apogee_diff_km |-> edge.apogee_diff,
     perigee_diff_km |-> edge.perigee_diff,
     inclination_diff_degrees |-> edge.inclination_diff]

\* lines 111-161 for one band
BandEdges(sats, band) ==
    LET band_satellites == BandSatellites(sats, band)
        partners == Partners(band_satellites)
        keys == EdgeKeyOrder(partners)
    IN  Concat([n \in 1..Len(keys) |->
                   LET sat1 == band_satellites[keys[n]]
                       edges == [m \in 1..Len(partners[keys[n]]) |->
                                    Candidate(sat1, band_satellites[partners[keys[n]][m]])]
                       top_edges == TopEdges(edges)
                   IN  [m \in 1..Len(top_edges) |->
                           ProximityEdge(sat1._key, top_edges[m], band)]])

\* lines 108-161: all_edges
AllProximityEdges(sats) ==
    LET bands == BandOrder(sats)
    IN  Concat([b \in 1..Len(bands) |-> BandEdges(sats, bands[b])])

\* populate_orbital_proximity.py 39-228 from line 163 on, all_edges being
\* computed; a dry run returns at line 180, otherwise lines 186-217 truncate
\* the collection and insert all_edges
PersistProximity(dry_run, orbital_band_filter, all_edges) ==
    LET inserted == InsertEdges(all_edges)
        counts == IF dry_run THEN <<>> ELSE BatchCounts(all_edges)
    IN  /\ prox_edges' = IF dry_run THEN prox_edges ELSE inserted
        /\ run' = [op |-> "populate_orbital_proximity",
                   dry_run |-> dry_run,
                   orbital_band_filter |-> orbital_band_filter,
                   computed |-> Range(all_edges),
                   batches |-> counts,
                   total_inserted |-> TotalInserted(counts),
                   total_errors |-> TotalErrors(counts)]
        /\ UNCHANGED <<satellites, document, last, upserted, reg_docs, reg_edges,
                       const_edges>>

\* populate_orbital_proximity.py 39-228, for either value of dry_run
populate_orbital_proximity(orbital_band_filter) ==
    LET all_edges == AllProximityEdges(ProximityQuery(satellites, orbital_band_filter))
    IN  \E dry_run \in BOOLEAN :
            PersistProximity(dry_run, orbital_band_filter, all_edges)

----------------------------------------------------------------------------
(* Constellation Graph Builder, populate_constellation_network.py *)

\* lines 30-41: the satellites whose kaggle record carries a constellation,
\* sorted by identifier
ConstellationQuery(coll) ==
    SortByIdentifier(
        {[_key |-> coll[k]._key,
          identifier |-> coll[k].identifier,
          constellation |-> coll[k].sources.kaggle.satellite_constellation] :
         k \in {x \in DOMAIN coll :
                   Nested3(coll[x], "sources", "kaggle", "satellite_constellation")
                       # None}})

\* lines 51-53: the keys of constellation_members, in insertion order
ConstellationNames(satellites_with_const) ==
    Distinct([i \in 1..Len(satellites_with_const) |->
                 satellites_with_const[i].constellation])

\* lines 51-53: constellation_members[const_name]
ConstellationMembers(satellites_with_const, const_name) ==
    SelectSeq(satellites_with_const, LAMBDA sat : sat.constellation = const_name)

\* a hub choice that takes the last member of the sorted list
ConstellationHubLast(members) == members[Len(members)]

\* lines 64-68: constellation_hubs[const_name]
ConstellationHub(members) == members[1]

\* the edges of the members, the hub among them
MemberEdgesWithHub(members, hub, const_name) ==
    [m \in 1..Len(members) |->
        [_from |-> SatelliteId(members[m]._key),
         _to |-> SatelliteId(hub._key),
         constellation_name |-> const_name,
         relationship |-> "member_to_hub"]]

\* lines 92-105: the edges of one constellation
MemberEdges(members, hub, const_name) ==
    LET others == SelectSeq(members, LAMBDA sat : sat._key # hub._key)
    IN  [m \in 1..Len(others) |->
            [_from |-> SatelliteId(others[m]._key),
             _to |-> SatelliteId(hub._key),
             constellation_name |-> const_name,
             relationship |-> "member_to_hub"]]

\* lines 90-105: edges
ConstellationEdges(satellites_with_const) ==
    LET names == ConstellationNames(satellites_with_const)
    IN  Concat([c \in 1..Len(names) |->
                   LET members == ConstellationMembers(satellites_with_const, names[c])
                   IN  MemberEdges(members, ConstellationHub(members), names[c])])

\* populate_constellation_network.py 15-136; a dry run returns at line 74,
\* otherwise lines 80-128 truncate the collection and insert the edges
populate_constellation_network(dry_run) ==
    LET satellites_with_const == ConstellationQuery(satellites)
        names == ConstellationNames(satellites_with_const)
        edges == ConstellationEdges(satellites_with_const)
        inserted == InsertEdges(edges)
        counts == IF dry_run THEN <<>> ELSE BatchCounts(edges)
    IN  /\ const_edges' = IF dry_run THEN const_edges ELSE inserted
        /\ run' = [op |-> "populate_constellation_network",
                   dry_run |-> dry_run,
                   constellation_hubs |->
                       [c \in Range(names) |->
                           ConstellationHub(
                               ConstellationMembers(satellites_with_const, c))._key],
                   batches |-> counts,
                   total_inserted |-> TotalInserted(counts),
                   total_errors |-> TotalErrors(counts)]
        /\ UNCHANGED <<satellites, document, last, upserted, reg_docs, reg_edges,
                       prox_edges>>

----------------------------------------------------------------------------
(* Registration Graph Builder, populate_registration_network.py *)

\* lines 30-40: the satellites with a canonical registration document; the
\* query has no SORT, the caller supplies the order the database returns
RegistrationQuery(coll) ==
    {[_key |-> coll[k]._key,
      identifier |-> coll[k].identifier,
      registration_document |-> coll[k].canonical.registration_document,
      country |-> Nested(coll[k], "canonical", "country_of_origin")] :
     k \in {x \in DOMAIN coll :
               Nested(coll[x], "canonical", "registration_document") # None}}

\* the sequences that list every element of a set once
Orderings(set) ==
    {seq \in [1..Cardinality(set) -> set] : Range(seq) = set}

\* lines 52-60: the keys of reg_doc_data, in insertion order
RegistrationUrls(satellites_with_reg_doc) ==
    Distinct([i \in 1..Len(satellites_with_reg_doc) |->
                 satellites_with_reg_doc[i].registration_document])

\* lines 52-60: reg_doc_data[url]; the countries are a set, written out
\* sorted at line 96
RegDocData(satellites_with_reg_doc, url) ==
    LET sats == SelectSeq(satellites_with_reg_doc,
                          LAMBDA sat : sat.registration_document = url)
    IN  [satellites |-> [i \in 1..Len(sats) |-> sats[i]._key],
         countries |-> {sats[i].country : i \in 1..Len(sats)}
                           \ {c \in {sats[i].country : i \in 1..Len(sats)} : ~Truthy(c)}]

\* lines 90 and 126: doc_key; a reference string is S(characters)
RegistrationKey(url) ==
    Replace(Replace(Replace(url[2], "/", <<"_">>), ".", <<"_">>), ":", <<"_">>)

\* nodes whose satellite_count is the number of countries of the group
RegDocNodesCountingCountries(satellites_with_reg_doc) ==
    LET urls == RegistrationUrls(satellites_with_reg_doc)
    IN  [u \in 1..Len(urls) |->
            LET data == RegDocData(satellites_with_reg_doc, urls[u])
            IN  [_key |-> RegistrationKey(urls[u]),
                 url |-> urls[u],
                 satellite_count |-> Cardinality(data.countries),
                 countries |-> data.countries,
                 created_at |-> TS]]

\* lines 88-98: reg_doc_nodes
RegDocNodes(satellites_with_reg_doc) ==
    LET urls == RegistrationUrls(satellites_with_reg_doc)
    IN  [u \in 1..Len(urls) |->
            LET data == RegDocData(satellites_with_reg_doc, urls[u])
            IN  [_key |-> RegistrationKey(urls[u]),
                 url |-> urls[u],
                 satellite_count |-> Len(data.satellites),
                 countries |-> data.countries,
                 created_at |-> TS]]

RegDocId(key) == <<"registration_documents", key>>

\* lines 124-136: edges
RegistrationEdges(satellites_with_reg_doc) ==
    LET urls == RegistrationUrls(satellites_with_reg_doc)
    IN  Concat([u \in 1..Len(urls) |->
                   LET data == RegDocData(satellites_with_reg_doc, urls[u])
                   IN  [i \in 1..Len(data.satellites) |->
                           [_from |-> SatelliteId(data.satellites[i]),
                            _to |-> RegDocId(RegistrationKey(urls[u])),
                            registration_document |-> urls[u]]]])

\* populate_registration_network.py 15-175; a dry run returns at line 72,
\* otherwise lines 78-158 truncate both collections and insert nodes and edges
populate_registration_network(dry_run, satellites_with_reg_doc) ==
    LET reg_doc_nodes == RegDocNodes(satellites_with_reg_doc)
        nodes == InsertKeyed(reg_doc_nodes)
        edges == RegistrationEdges(satellites_with_reg_doc)
        inserted_edges == InsertEdges(edges)
        results == KeyedResults(reg_doc_nodes)
        counts == IF dry_run THEN <<>> ELSE BatchCounts(edges)
    IN  /\ Range(satellites_with_reg_doc) = RegistrationQuery(satellites)
        /\ reg_docs' = IF dry_run THEN reg_docs ELSE nodes
        /\ reg_edges' = IF dry_run THEN reg_edges ELSE inserted_edges
        /\ run' = [op |-> "populate_registration_network",
                   dry_run |-> dry_run,
                   extracted |-> Len(reg_doc_nodes),
                   inserted |-> IF dry_run THEN 0 ELSE CountInserted(results),
                   errors |-> IF dry_run THEN 0 ELSE CountErrors(results),
                   batches |-> counts,
                   total_inserted |-> TotalInserted(counts),
                   total_errors |-> TotalErrors(counts)]
        /\ UNCHANGED <<satellites, document, last, upserted, const_edges,
                       prox_edges>>

----------------------------------------------------------------------------
(* Inputs *)

ISS == <<"1", "9", "9", "8", "-", "0", "6", "7", "A">>

UNOOSA_DATA ==
    {[name |-> S("ISS"), country_of_origin |-> S("Russian Federation"),
      date_of_launch |-> S("1998-11-20")],
     [country_of_origin |-> S("Russian Federation")]}

KAGGLE_DATA ==
    {[name |-> S("ISS (ZARYA)"), country |-> S("USA"), norad_cat_id |-> N(25544),
      altitude_km |-> N(40800), eccentricity |-> N(3), inclination |-> N(5164),
      mean_motion |-> N(1550), orbital_band |-> S("LEO-Inclined"),
      satellite_constellation |-> S("Other")]}

SPACETRACK_DATA ==
    {[name |-> S("ZARYA"), launch_site |-> S("TYMSC")],
     [name |-> S("ZARYA")]}

CELESTRAK_DATA ==
    {[apogee_km |-> N(41700), perigee_km |-> N(41000),
      inclination_degrees |-> N(5164), tle_line1 |-> S("1 25544U")],
     [apogee_km |-> S(""), name |-> S("")]}

DataOf(source) ==
    CASE source = "unoosa" -> UNOOSA_DATA
      [] source = "kaggle" -> KAGGLE_DATA
      [] source = "spacetrack" -> SPACETRACK_DATA
      [] source = "celestrak" -> CELESTRAK_DATA

RecordSources == {"unoosa", "kaggle", "spacetrack", "celestrak"}

GCAT_DATA ==
    {EmptyDict,
     [k \in {N(25544)} |-> [launch_date |-> S("1998-11-20"), state |-> S("RU")]]}

----------------------------------------------------------------------------
(* SpecRecord: one identifier, every source, the enrichment scripts *)

NoGraph ==
    /\ reg_docs = EmptyDict
    /\ reg_edges = {}
    /\ const_edges = {}
    /\ prox_edges = {}
    /\ run = NoRun

InitRecord ==
    /\ satellites = EmptyDict
    /\ document = EmptyDict
    /\ last = NoRun
    /\ upserted = {}
    /\ NoGraph

UpsertRecord ==
    \E source \in RecordSources : \E data \in DataOf(source) :
        create_satellite_document(ISS, source, data)

PromoteLaunchSite == \E proceed \in BOOLEAN : promote_launch_site(proceed)

PromoteKaggleOrbital == \E proceed \in BOOLEAN : promote_kaggle_orbital(proceed)

EnrichLaunchData ==
    \E dry_run \in BOOLEAN : \E gcat_data \in GCAT_DATA :
        enrich_launch_data(dry_run, gcat_data)

NextRecord ==
    \/ UpsertRecord
    \/ PromoteLaunchSite
    \/ PromoteKaggleOrbital
    \/ EnrichLaunchData

SpecRecord == InitRecord /\ [][NextRecord]_vars

----------------------------------------------------------------------------
(* SpecStore: several identifiers, some of which map to the same _key *)

STORE_IDENTIFIERS ==
    {<<"A", "/", "1">>, <<"A", ":", "1">>, <<"B", "*">>}

STORE_SOURCES == {"unoosa", "kaggle"}

STORE_DATA == {[name |-> S("ISS")]}

InitStore == InitRecord

UpsertStore ==
    \E identifier \in STORE_IDENTIFIERS : \E source \in STORE_SOURCES :
        \E data \in STORE_DATA :
            create_satellite_document(identifier, source, data)

NextStore == UpsertStore

SpecStore == InitStore /\ [][NextStore]_vars

----------------------------------------------------------------------------
(* SpecResolve: update_canonical applied to in-memory documents *)

MaxSources == 3

RESOLVER_SOURCES == {"unoosa", "tleapi", "spacetrack", "kaggle"}

KAGGLE_IMPORT_PRIORITY == <<"unoosa", "celestrak", "spacetrack", "kaggle">>

\* the sub-records a source may hold: each string value names its source
SubRecords(s) ==
    <<EmptyDict,
      [name |-> S(s)],
      [name |-> S("")],
      [name |-> None, apogee_km |-> N(Len(s))],
      [name |-> S(s), country_of_origin |-> S(s), apogee_km |-> S(""),
       tle_line1 |-> S(s)]>>

\* the iteration orders of a dict with the keys ks
Orders(ks) ==
    {o \in [1..Cardinality(ks) -> ks] : \A i, j \in 1..Cardinality(ks) : o[i] = o[j] => i = j}

RESOLVER_METADATA ==
    {[source_priority |-> DEFAULT_NEW_PRIORITY],
     [source_priority |-> KAGGLE_IMPORT_PRIORITY],
     [created_at |-> TS]}

\* the in-memory document whose sources ks hold the sub-records picked,
\* inserted in the order o
ResolverInput(ks, pick, o, md) ==
    [sources |-> [s \in ks |-> SubRecords(s)[pick[s]]],
     sources_order |-> o, metadata |-> md, canonical |-> EmptyDict]

InitResolve ==
    /\ satellites = EmptyDict
    /\ \E ks \in {x \in SUBSET RESOLVER_SOURCES : Cardinality(x) <= MaxSources} :
           \E pick \in [ks -> 1..5], o \in Orders(ks), md \in RESOLVER_METADATA :
               document = ResolverInput(ks, pick, o, md)
    /\ last = NoRun
    /\ upserted = {}
    /\ NoGraph

Resolve ==
    /\ last.op = "none"
    /\ document' = update_canonical(document)
    /\ last' = [op |-> "update_canonical"]
    /\ UNCHANGED <<satellites, upserted, reg_docs, reg_edges, const_edges,
                   prox_edges, run>>

NextResolve == Resolve

SpecResolve == InitResolve /\ [][NextResolve]_vars

----------------------------------------------------------------------------
(* Views that leave the timestamp fields aside *)

WithoutKeys(d, ks) == [k \in (DOMAIN d) \ ks |-> d[k]]

CanonicalView(c) == WithoutKeys(c, {"updated_at"})

SourcesView(src) == [s \in DOMAIN src |-> WithoutKeys(src[s], {"updated_at"})]

RecordView(stored) ==
    [identifier |-> stored.identifier,
     canonical |-> CanonicalView(stored.canonical),
     sources |-> SourcesView(stored.sources),
     sources_available |-> Range(stored.metadata.sources_available)]

StoreView(coll) == [k \in DOMAIN coll |-> RecordView(coll[k])]

\* the stored record of the identifier the last upsert was called with
LastKey == CHOOSE k \in DOMAIN satellites : satellites[k].identifier = last.identifier

LastUpdated == last.op = "upsert" /\ last.outcome = "updated"

----------------------------------------------------------------------------
(* Claims *)

\* rank of a source in a document's priority order: its position in
\* metadata.source_priority, the unlisted sources after every listed one
Rank(s, source_priority) ==
    IF s \in Range(source_priority)
    THEN CHOOSE i \in 1..Len(source_priority) : source_priority[i] = s
    ELSE Len(source_priority) + 1

DocPriority(d) ==
    IF "source_priority" \in DOMAIN d.metadata
    THEN d.metadata.source_priority ELSE DEFAULT_SOURCE_PRIORITY

HoldersOf(d, f) ==
    {s \in DOMAIN d.sources : ScalarAccepts(Get(d.sources[s], f))}

\* C1: for every canonical scalar field, when two sources of different rank
\* both hold a non-null, non-empty value, update_canonical sets the field to
\* the value of the higher-ranked one (the one no holder outranks), whatever
\* the insertion order of the sources dict.
C1_HigherRankWins ==
    last.op = "update_canonical" =>
        \A f \in Range(canonical_fields) :
            \A s1, s2 \in HoldersOf(document, f) :
                (/\ Rank(s1, DocPriority(document)) < Rank(s2, DocPriority(document))
                 /\ \A s3 \in HoldersOf(document, f) :
                        Rank(s1, DocPriority(document)) <= Rank(s3, DocPriority(document)))
                => /\ f \in DOMAIN document.canonical
                   /\ document.canonical[f] = document.sources[s1][f]

\* a resolved document in which kaggle and unoosa both hold a name and
\* kaggle was inserted first
C1_Witness ==
    /\ last.op = "update_canonical"
    /\ {"kaggle", "unoosa"} \subseteq HoldersOf(document, "name")
    /\ document.sources_order[1] = "kaggle"
    /\ document.canonical["name"] = S("unoosa")

\* C2: every stored record's canonical view, timestamps aside, equals
\* update_canonical applied to the record's stored sources and priority.
C2_CanonicalIsResolved ==
    \A k \in DOMAIN satellites :
        CanonicalView(satellites[k].canonical)
            = CanonicalView(Canonical(Load(satellites[k])))

\* C3: a second create_satellite_document call with the arguments of the
\* call before it leaves every record's canonical view, sources and
\* sources_available as the first call left them, and adds no record.
C3_UpsertIdempotent ==
    [][(last'.op = "upsert" /\ last'.repeat)
           => StoreView(satellites') = StoreView(satellites)]_vars

\* the same upsert was made twice in a row on a record with other sources
C3_Witness ==
    /\ LastUpdated
    /\ last.repeat
    /\ Cardinality(DOMAIN satellites[LastKey].sources) >= 2

\* C8: the store holds exactly one record for each identifier that was
\* upserted, and no two records share an identifier.
C8_OneRecordPerIdentifier ==
    /\ {satellites[k].identifier : k \in DOMAIN satellites} = upserted
    /\ Cardinality(DOMAIN satellites) = Cardinality(upserted)

\* C9: a canonical field (scalar, orbit or tle) for which no source holds a
\* non-null, non-empty value is absent from the canonical dict.
C9_AbsentWhenNoSourceHolds ==
    last.op = "update_canonical" =>
        /\ \A f \in Range(canonical_fields) :
               HoldersOf(document, f) = {} => f \notin DOMAIN document.canonical
        /\ \A f \in Range(orbital_fields) :
               HoldersOf(document, f) = {} => f \notin DOMAIN document.canonical.orbit
        /\ \A f \in Range(tle_fields) :
               HoldersOf(document, f) = {} => TleName(f) \notin DOMAIN document.canonical.tle

\* C10: after create_satellite_document(identifier, s, d) on an existing
\* record, the stored sources[s] is d plus updated_at, every other stored
\* sub-record is unchanged, and sources_available lists the keys of sources.
C10_FullReplace ==
    [][(last'.op = "upsert" /\ last'.outcome = "updated") =>
          LET k == CHOOSE x \in DOMAIN satellites :
                       satellites[x].identifier = last'.identifier
              s == last'.source
          IN  /\ satellites'[k].sources[s] = MergeFlat(last'.data, [updated_at |-> TS])
              /\ \A o \in (DOMAIN satellites[k].sources) \ {s} :
                     o \in DOMAIN satellites'[k].sources
                     /\ satellites'[k].sources[o] = satellites[k].sources[o]
              /\ Range(satellites'[k].metadata.sources_available)
                     = DOMAIN satellites'[k].sources]_vars

----------------------------------------------------------------------------
(* SpecProx: proximity builds over stores of CrowdSize + FreeSize satellites *)

CrowdSize == 11

FreeSize == 2

DIGITS == <<"0", "1", "2", "3", "4", "5", "6", "7", "8", "9">>

\* the identifier "S" followed by the two digits of i
NumberedIdentifier(i) == <<"S", DIGITS[(i \div 10) + 1], DIGITS[(i % 10) + 1]>>

Orbit(band, apogee, perigee, inclination) ==
    [orbital_band |-> S(band), apogee_km |-> N(apogee), perigee_km |-> N(perigee),
     inclination_degrees |-> N(inclination)]

\* orbital data as a source delivers it, in hundredths of km and degrees
ORBIT_DATA ==
    {Orbit("LEO-Polar", 52000, 49000, 9750),
     Orbit("LEO-Polar", 55000, 53000, 9200),
     Orbit("LEO-Polar", 55001, 48000, 9700),
     Orbit("LEO-Polar", 50000, 42999, 9199),
     Orbit("GEO", 50000, 48000, 9700),
     [orbital_band |-> S("LEO-Polar"), apogee_km |-> N(50000), perigee_km |-> N(48000)]}

CROWD_DATA == {Orbit("LEO-Polar", 50000, 48000, 9700)}

\* the store after each satellite i was upserted once with data[i]
StoreOf(n, source, data) ==
    [k \in {SatelliteKey(NumberedIdentifier(i)) : i \in 1..n} |->
        LET i == CHOOSE j \in 1..n : SatelliteKey(NumberedIdentifier(j)) = k
        IN  Dump(NewDocument(NumberedIdentifier(i), source, data[i]))]

\* the free satellites take the first identifier and the last ones, the
\* crowd the identifiers in between
ProximityStores(crowd_size, free_size) ==
    {StoreOf(crowd_size + free_size, "celestrak",
             [i \in 1..(crowd_size + free_size) |->
                 IF i = 1 THEN free[1]
                 ELSE IF i <= crowd_size + 1 THEN crowd
                 ELSE free[i - crowd_size]]) :
        crowd \in CROWD_DATA, free \in [1..free_size -> ORBIT_DATA]}

BAND_FILTERS == {None, S("LEO-Polar"), S("GEO")}

InitProx ==
    /\ satellites \in ProximityStores(CrowdSize, FreeSize)
    /\ document = EmptyDict
    /\ last = NoRun
    /\ upserted = {}
    /\ NoGraph

PopulateProximity ==
    \E orbital_band_filter \in BAND_FILTERS :
        populate_orbital_proximity(orbital_band_filter)

NextProx == PopulateProximity

SpecProx == InitProx /\ [][NextProx]_vars

\* the persisted edges that leave, and that reach, a satellite
OutEdges(id) == {e \in prox_edges : e._from = id}

InEdges(id) == {e \in prox_edges : e._to = id}

StoredSatellite(id) == satellites[id[2]]

OrbitValue(id, f) == StoredSatellite(id).canonical.orbit[f][2]

ProximityBuilt == run.op = "populate_orbital_proximity" /\ ~run.dry_run

\* C4: every persisted proximity edge joins two distinct satellites of one
\* orbital band, the band the edge carries, whose apogee, perigee and
\* inclination differ by at most 50 km, 50 km and 5 degrees.
C4_EdgesWithinBandAndThresholds ==
    \A e \in prox_edges :
        /\ e._from # e._to
        /\ StoredSatellite(e._from).canonical.orbital_band
               = StoredSatellite(e._to).canonical.orbital_band
        /\ StoredSatellite(e._from).canonical.orbital_band = e.orbital_band
        /\ Abs(OrbitValue(e._from, "apogee_km") - OrbitValue(e._to, "apogee_km")) <= 5000
        /\ Abs(OrbitValue(e._from, "perigee_km") - OrbitValue(e._to, "perigee_km")) <= 5000
        /\ Abs(OrbitValue(e._from, "inclination_degrees")
                   - OrbitValue(e._to, "inclination_degrees")) <= 500

\* a build persisted an edge whose apogee difference is exactly 50 km while
\* the store holds a pair of one band 50.01 km apart
C4_Witness ==
    /\ ProximityBuilt
    /\ \E e \in prox_edges : e.apogee_diff_km = 5000
    /\ \E a, b \in DOMAIN satellites :
           /\ Nested3(satellites[a], "canonical", "orbit", "apogee_km") = N(55001)
           /\ Nested3(satellites[b], "canonical", "orbit", "apogee_km") = N(50000)
           /\ Nested(satellites[a], "canonical", "orbital_band")
                  = Nested(satellites[b], "canonical", "orbital_band")

\* C5: after a proximity build, no satellite is the _from of more than
\* MAX_EDGES_PER_SATELLITE persisted edges.
C5_OutDegreeCapped ==
    \A k \in DOMAIN satellites : Cardinality(OutEdges(SatelliteId(k))) <= MAX_EDGES_PER_SATELLITE

\* a build left a satellite with 10 outgoing edges and more than 10 incoming
C5_Witness ==
    /\ ProximityBuilt
    /\ \E k \in DOMAIN satellites :
           /\ Cardinality(OutEdges(SatelliteId(k))) = MAX_EDGES_PER_SATELLITE
           /\ Cardinality(InEdges(SatelliteId(k))) > MAX_EDGES_PER_SATELLITE

----------------------------------------------------------------------------
(* SpecConst: constellation builds over stores of labelled satellites *)

ConstSize == 4

\* what the kaggle import delivers for one satellite
CONSTELLATION_DATA ==
    {[satellite_constellation |-> S("Starlink")],
     [satellite_constellation |-> S("OneWeb")],
     [name |-> S("ISS")]}

ConstellationStores(n) ==
    {StoreOf(n, "kaggle", data) : data \in [1..n -> CONSTELLATION_DATA]}

\* the edge collection before the first build: empty, or left by a build
\* over an earlier store
EARLIER_CONSTELLATION_EDGES ==
    {{},
     {[_from |-> SatelliteId(<<"S", "0", "1">>),
       _to |-> SatelliteId(<<"S", "0", "2">>),
       constellation_name |-> S("Iridium"),
       relationship |-> "member_to_hub"]}}

InitConst ==
    /\ satellites \in ConstellationStores(ConstSize)
    /\ document = EmptyDict
    /\ last = NoRun
    /\ upserted = {}
    /\ reg_docs = EmptyDict
    /\ reg_edges = {}
    /\ const_edges \in EARLIER_CONSTELLATION_EDGES
    /\ prox_edges = {}
    /\ run = NoRun

PopulateConstellation ==
    \E dry_run \in BOOLEAN : populate_constellation_network(dry_run)

NextConst == PopulateConstellation

SpecConst == InitConst /\ [][NextConst]_vars

ConstellationOf(k) ==
    Nested3(satellites[k], "sources", "kaggle", "satellite_constellation")

ConstellationLabels == {ConstellationOf(k) : k \in DOMAIN satellites} \ {None}

MembersOf(c) == {k \in DOMAIN satellites : ConstellationOf(k) = c}

ConstellationOut(k) == {e \in const_edges : e._from = SatelliteId(k)}

\* h is a member without outgoing edge and every other member has exactly
\* one outgoing edge, to h
IsHubOf(h, c) ==
    /\ h \in MembersOf(c)
    /\ ConstellationOut(h) = {}
    /\ \A m \in MembersOf(c) \ {h} :
           /\ Cardinality(ConstellationOut(m)) = 1
           /\ \A e \in ConstellationOut(m) : e._to = SatelliteId(h)

ConstellationBuilt == run.op = "populate_constellation_network" /\ ~run.dry_run

\* C6: after a constellation build, every constellation label has exactly
\* one hub, the one the build designated: the hub has no outgoing
\* constellation edge and every other member has exactly one, to the hub.
C6_StarPerConstellation ==
    ConstellationBuilt =>
        \A c \in ConstellationLabels :
            /\ Cardinality({h \in MembersOf(c) : IsHubOf(h, c)}) = 1
            /\ IsHubOf(run.constellation_hubs[c], c)

\* a build over a store with a constellation of three or more members and
\* a constellation of one
C6_Witness ==
    /\ ConstellationBuilt
    /\ \E c \in ConstellationLabels : Cardinality(MembersOf(c)) >= 3
    /\ \E c \in ConstellationLabels : Cardinality(MembersOf(c)) = 1
    /\ const_edges # {}

----------------------------------------------------------------------------
(* SpecReg: registration builds over stores of registered satellites *)

RegSize == 3

\* what the registry delivers for one satellite; a reference string is a
\* sequence of characters
REGISTRATION_DATA ==
    {[registration_document |-> S(<<"A", "/", "1">>), country_of_origin |-> S("USA")],
     [registration_document |-> S(<<"A", ".", "1">>), country_of_origin |-> S("France")],
     [registration_document |-> S(<<"B">>), country_of_origin |-> S("")],
     [registration_document |-> S(<<"B", "#">>), country_of_origin |-> S("USA")],
     [registration_document |-> S(<<"A", "(", "1", ")">>), country_of_origin |-> S("USA")],
     [name |-> S("ISS")]}

RegistrationStores(n) ==
    {StoreOf(n, "unoosa", data) : data \in [1..n -> REGISTRATION_DATA]}

InitReg ==
    /\ satellites \in RegistrationStores(RegSize)
    /\ document = EmptyDict
    /\ last = NoRun
    /\ upserted = {}
    /\ NoGraph

PopulateRegistration ==
    \E dry_run \in BOOLEAN :
        \E satellites_with_reg_doc \in Orderings(RegistrationQuery(satellites)) :
            populate_registration_network(dry_run, satellites_with_reg_doc)

NextReg == PopulateRegistration

SpecReg == InitReg /\ [][NextReg]_vars

RegistrationBuilt == run.op = "populate_registration_network" /\ ~run.dry_run

\* the distinct non-null reference strings of the canonical data
ReferenceStrings ==
    {Nested(satellites[k], "canonical", "registration_document") :
        k \in DOMAIN satellites} \ {None}

\* C7: after a registration build, there are as many registration document
\* nodes as distinct non-null reference strings in the canonical data.
C7_NodePerReference ==
    RegistrationBuilt => Cardinality(DOMAIN reg_docs) = Cardinality(ReferenceStrings)

----------------------------------------------------------------------------
(* SpecOrbital: a record with a registry country and Kaggle orbital data,
   upserts and promote_kaggle_orbital runs *)

ORBITAL_UNOOSA_DATA ==
    {[country_of_origin |-> S("Russian Federation")],
     [name |-> S("ISS")]}

\* the Kaggle record with altitude and eccentricity, and the same record
\* with an inclination
ORBITAL_KAGGLE_DATA ==
    {[country |-> S("USA"), altitude_km |-> N(40800), eccentricity |-> N(3)],
     [country |-> S("USA"), altitude_km |-> N(40800), eccentricity |-> N(3),
      inclination |-> N(5164)]}

InitOrbital == InitRecord

UpsertOrbital ==
    \/ \E data \in ORBITAL_UNOOSA_DATA : create_satellite_document(ISS, "unoosa", data)
    \/ \E data \in ORBITAL_KAGGLE_DATA : create_satellite_document(ISS, "kaggle", data)

NextOrbital ==
    \/ UpsertOrbital
    \/ PromoteKaggleOrbital

SpecOrbital == InitOrbital /\ [][NextOrbital]_vars

\* the stored records with unoosa {country_of_origin: Russian Federation}
\* and kaggle {country: USA, altitude_km: 408, eccentricity: 0.0003}
KaggleExampleRecords(coll) ==
    {k \in DOMAIN coll :
        /\ Nested3(coll[k], "sources", "unoosa", "country_of_origin")
               = S("Russian Federation")
        /\ Nested3(coll[k], "sources", "kaggle", "country") = S("USA")
        /\ Nested3(coll[k], "sources", "kaggle", "altitude_km") = N(40800)
        /\ Nested3(coll[k], "sources", "kaggle", "eccentricity") = N(3)}

\* the canonical view c shows the unoosa country and the apogee derived
\* from the Kaggle altitude and eccentricity, 410.04 km
ShowsCountryAndApogee(c) ==
    /\ Get(c, "country_of_origin") = S("Russian Federation")
    /\ "orbit" \in DOMAIN c
    /\ Get(c.orbit, "apogee_km") = N(KaggleApogee(40800, 3))

\* stored canonical and the resolver's result both show them
EnrichedByResolution(coll) ==
    \A k \in KaggleExampleRecords(coll) :
        /\ ShowsCountryAndApogee(coll[k].canonical)
        /\ ShowsCountryAndApogee(Canonical(Load(coll[k])))

\* C11: for a record with unoosa {country_of_origin: Russian Federation} and
\* kaggle {country: USA, altitude_km: 408, eccentricity: 0.0003}, after a
\* promote_kaggle_orbital run, and after every later upsert, the canonical
\* view shows the unoosa country and an apogee derived from the Kaggle
\* values, and resolution of the record's sources yields them.
C11_EnrichedOrbitThroughResolution ==
    [][(\/ promote_kaggle_orbital(TRUE) /\ KaggleExampleRecords(satellites) # {}
        \/ /\ EnrichedByResolution(satellites)
           /\ KaggleExampleRecords(satellites) # {}
           /\ last'.op = "upsert")
       => EnrichedByResolution(satellites')]_vars

----------------------------------------------------------------------------
(* Claims about the proximity score *)

HasOrbit(k, band, apogee, perigee, inclination) ==
    /\ Nested(satellites[k], "canonical", "orbital_band") = S(band)
    /\ Nested3(satellites[k], "canonical", "orbit", "apogee_km") = N(apogee)
    /\ Nested3(satellites[k], "canonical", "orbit", "perigee_km") = N(perigee)
    /\ Nested3(satellites[k], "canonical", "orbit", "inclination_degrees")
           = N(inclination)

\* a and b are satellites of one band with apogee 500/520, perigee 480/490
\* and inclination 97.0/97.5, either way round
ScoreExamplePair(a, b) ==
    \/ /\ HasOrbit(a, "LEO-Polar", 50000, 48000, 9700)
       /\ HasOrbit(b, "LEO-Polar", 52000, 49000, 9750)
    \/ /\ HasOrbit(a, "LEO-Polar", 52000, 49000, 9750)
       /\ HasOrbit(b, "LEO-Polar", 50000, 48000, 9700)

\* the edge carries score 0.21 and the differences 20 km, 10 km, 0.5 degrees
ScoreExampleEdge(e) ==
    /\ e.proximity_score = 2100
    /\ e.apogee_diff_km = 2000
    /\ e.perigee_diff_km = 1000
    /\ e.inclination_diff_degrees = 50

----------------------------------------------------------------------------
(* SpecKey: the two writers of satellite keys, import_arangodb_data.py and
   db.py *)

MaxImport == 2

\* a key derivation that leaves the asterisk in place
ImportKeyKeepingStar(identifier) ==
    Replace(Replace(Replace(Replace(Replace(Replace(identifier,
        "/", <<"_">>), ":", <<"_">>), ".", <<"_">>),
        " ", <<"_">>), "(", <<"_">>), ")", <<"_">>)

\* import_arangodb_data.py 57-65: doc['_key'] = doc['identifier'].replace(...)
ImportKey(identifier) ==
    Replace(Replace(Replace(Replace(Replace(Replace(Replace(identifier,
        "/", <<"_">>), ":", <<"_">>), ".", <<"_">>),
        "*", <<"_", "S", "T", "A", "R", "_">>),
        " ", <<"_">>), "(", <<"_">>), ")", <<"_">>)

\* lines 53-67: the exported document without _id and with its _key
ImportDocument(doc) ==
    [k \in ((DOMAIN doc) \ {"_id"}) \cup {"_key"} |->
        IF k = "_key" THEN ImportKey(doc.identifier) ELSE doc[k]]

RECURSIVE ReplaceAll(_, _)
\* on_duplicate="replace": a document takes the place of the one stored
\* under its key
ReplaceAll(coll, docs) ==
    IF docs = <<>> THEN coll
    ELSE ReplaceAll(MergeFlat(coll, [k \in {Head(docs)._key} |-> Head(docs)]),
                    Tail(docs))

\* line 70, collection.import_bulk(batch_docs, on_duplicate="replace"): the
\* driver's halt_on_error default makes the import of a batch all or nothing
ImportBulkFails(docs) == \E i \in 1..Len(docs) : ~ValidKey(docs[i]._key)

ImportBulk(coll, docs) ==
    IF ImportBulkFails(docs) THEN coll ELSE ReplaceAll(coll, docs)

\* import_data, lines 39-76, for a file that fits one batch of 500
import_data(documents) ==
    LET batch_docs == [i \in 1..Len(documents) |-> ImportDocument(documents[i])]
        failed == ImportBulkFails(batch_docs)
    IN  /\ satellites' = ImportBulk(satellites, batch_docs)
        /\ last' = [op |-> "import",
                    imported_count |-> IF failed THEN 0 ELSE Len(batch_docs),
                    error_count |-> IF failed THEN Len(batch_docs) ELSE 0]
        /\ UNCHANGED <<document, upserted, reg_docs, reg_edges, const_edges,
                       prox_edges, run>>

KEY_IDENTIFIERS ==
    {<<"B", "*">>, <<"B", "_", "S", "T", "A", "R", "_">>,
     <<"(", "A", ")", ".", "1">>, <<"A", "#">>}

\* a record of the MongoDB export: mongodb_export.json
ExportedDocument(identifier) ==
    [_id |-> S("<oid>"),
     identifier |-> identifier,
     canonical |-> [name |-> S("ISS")],
     sources |-> [unoosa |-> [updated_at |-> S("<exported>"), name |-> S("ISS")]],
     metadata |-> [source_priority |-> DEFAULT_NEW_PRIORITY,
                   sources_available |-> <<"unoosa">>,
                   last_updated_at |-> S("<exported>"),
                   created_at |-> S("<exported>")]]

InitKey == InitRecord

ImportKeyed ==
    \E n \in 1..MaxImport : \E ids \in [1..n -> KEY_IDENTIFIERS] :
        import_data([i \in 1..n |-> ExportedDocument(ids[i])])

UpsertKeyed ==
    \E identifier \in KEY_IDENTIFIERS : \E data \in STORE_DATA :
        create_satellite_document(identifier, "kaggle", data)

NextKey ==
    \/ ImportKeyed
    \/ UpsertKeyed

SpecKey == InitKey /\ [][NextKey]_vars

----------------------------------------------------------------------------
(* Claims about the rebuild of the graph collections *)

\* the registration document nodes and edges computed from the store, which
\* do not depend on the order in which the query returns the satellites
ComputedRegistrationNodes ==
    UNION {Range(RegDocNodes(o)) : o \in Orderings(RegistrationQuery(satellites))}

ComputedRegistrationEdges ==
    UNION {Range(RegistrationEdges(o)) : o \in Orderings(RegistrationQuery(satellites))}

\* C14: after a constellation build, a registration build or a proximity
\* build without band filter, the target collection holds exactly the edges
\* and nodes computed from the satellite data of that run.
C14_RebuildHoldsWhatWasComputed ==
    /\ ConstellationBuilt =>
           const_edges = Range(ConstellationEdges(ConstellationQuery(satellites)))
    /\ RegistrationBuilt =>
           /\ {reg_docs[k] : k \in DOMAIN reg_docs} = ComputedRegistrationNodes
           /\ reg_edges = ComputedRegistrationEdges
    /\ (ProximityBuilt /\ run.orbital_band_filter = None) =>
           prox_edges = Range(AllProximityEdges(ProximityQuery(satellites, None)))

----------------------------------------------------------------------------
(* Claims about the insert counts of the builders *)

BuilderRan ==
    /\ run.op \in {"populate_constellation_network",
                   "populate_registration_network",
                   "populate_orbital_proximity"}
    /\ ~run.dry_run

\* the number of edges the last run computed from the store
ComputedEdgeCount ==
    IF run.op = "populate_constellation_network"
    THEN Len(ConstellationEdges(ConstellationQuery(satellites)))
    ELSE IF run.op = "populate_registration_network"
    THEN Cardinality(ComputedRegistrationEdges)
    ELSE Cardinality(run.computed)

\* the edge collection the last run wrote
BuiltEdges ==
    IF run.op = "populate_constellation_network" THEN const_edges
    ELSE IF run.op = "populate_registration_network" THEN reg_edges
    ELSE prox_edges

\* C15: in a builder run, for every batch the inserted count plus the
\* errored count is the batch size, the totals add up to the number of edges
\* (nodes) the run computed, and the documents that did not fail are stored:
\* a failed insert does not end the run.
C15_InsertCountsAddUp ==
    BuilderRan =>
        /\ \A b \in 1..Len(run.batches) :
               run.batches[b].batch_inserted + run.batches[b].batch_errors
                   = run.batches[b].size
        /\ run.total_inserted + run.total_errors = ComputedEdgeCount
        /\ run.total_inserted = Cardinality(BuiltEdges)
        /\ run.op = "populate_registration_network" =>
               /\ run.inserted + run.errors = Cardinality(ReferenceStrings)
               /\ run.inserted = Cardinality(DOMAIN reg_docs)

\* a registration build in which a node insert and an edge insert failed and
\* other nodes and edges were inserted
C15_Witness ==
    /\ RegistrationBuilt
    /\ run.errors >= 1
    /\ run.inserted >= 1
    /\ run.total_errors >= 1
    /\ run.total_inserted >= 1
    /\ reg_edges # {}

----------------------------------------------------------------------------
(* Graph read endpoints, api.py 643-1029 *)

\* LIMIT n without SORT: any n of the rows; no LIMIT clause: all of them
Limited(rows, clause, limit) ==
    IF ~clause THEN {rows}
    ELSE {shown \in SUBSET rows : Cardinality(shown) = Min(limit, Cardinality(rows))}

\* DOCUMENT(id) is not null
HasSatelliteDocument(id) ==
    id # None /\ id[1] = "satellites" /\ id[2] \in DOMAIN satellites

\* DOCUMENT(id): the stored satellite, or null
SatelliteDocument(id) == IF HasSatelliteDocument(id) THEN satellites[id[2]] ELSE None

\* lines 667-676: the node returned for a satellite
SatelliteNode(id) ==
    LET v == SatelliteDocument(id)
    IN  [id |-> id,
         key |-> id[2],
         identifier |-> v.identifier,
         name |-> Nested(v, "canonical", "name"),
         country |-> Nested(v, "canonical", "country_of_origin"),
         orbital_band |-> Nested(v, "canonical", "orbital_band"),
         status |-> Nested(v, "canonical", "status")]

\* an endpoint that answers an empty result with a 404
GraphResponseNotFound(result, found, empty, message) ==
    IF found
    THEN [status_code |-> 200, data |-> result, timestamp |-> TS]
    ELSE [status_code |-> 404, detail |-> message]

\* lines 727-744, 814-831 and 1013-1029: the returned dict, which FastAPI
\* sends with status 200
GraphResponse(result, found, empty, message) ==
    IF found
    THEN [status_code |-> 200, data |-> result, timestamp |-> TS]
    ELSE [status_code |-> 200, data |-> empty, message |-> message, timestamp |-> TS]

\* a row that lists the members without the hub node
ConstellationGraphMembersOnly(constellation_name, hub, shown) ==
    LET members == {SatelliteNode(e._from) : e \in shown}
    IN  [constellation |-> constellation_name,
         hub |-> None,
         nodes |-> members,
         edges |-> {[source |-> v.id, target |-> hub,
                     constellation |-> constellation_name,
                     relationship |-> "member_to_hub"] : v \in members},
         stats |-> [total_satellites |-> Cardinality(members),
                    members |-> Cardinality(members),
                    has_hub |-> FALSE]]

\* lines 654-719: the row of the AQL query for one choice the LIMITs allow
ConstellationGraph(constellation_name, hub, shown) ==
    LET members == {SatelliteNode(e._from) : e \in shown}
        has_hub == HasSatelliteDocument(hub)
        hub_node == IF has_hub
                    THEN MergeFlat(SatelliteNode(hub), [is_hub |-> TRUE])
                    ELSE None
    IN  [constellation |-> constellation_name,
         hub |-> hub_node,
         nodes |-> IF has_hub THEN members \cup {hub_node} ELSE members,
         edges |-> {[source |-> v.id, target |-> hub,
                     constellation |-> constellation_name,
                     relationship |-> "member_to_hub"] : v \in members},
         stats |-> [total_satellites |-> IF has_hub
                                         THEN Cardinality(members) + 1
                                         ELSE Cardinality(members),
                    members |-> Cardinality(members),
                    has_hub |-> has_hub]]

\* api.py 643-744; a limit of 0, like the default None, adds no LIMIT clause
get_constellation_graph(constellation_name, limit) ==
    LET named == {e \in const_edges : e.constellation_name = constellation_name}
    IN  \E hub \in (IF named = {} THEN {None} ELSE {e._to : e \in named}) :
        \E shown \in Limited({e \in named : e._to = hub}, limit # 0, limit) :
            LET result == ConstellationGraph(constellation_name, hub, shown)
            IN  /\ last' = [op |-> "get_constellation_graph",
                            constellation_name |-> constellation_name,
                            limit |-> limit,
                            response |->
                                GraphResponse(result, result.nodes # {},
                                    [constellation |-> constellation_name,
                                     hub |-> None,
                                     nodes |-> {},
                                     edges |-> {},
                                     stats |-> [total_satellites |-> 0,
                                                members |-> 0,
                                                has_hub |-> FALSE]],
                                    <<"No satellites found for constellation",
                                      constellation_name>>)]
                /\ UNCHANGED <<satellites, document, upserted, reg_docs, reg_edges,
                               const_edges, prox_edges, run>>

\* lines 762-804: the row of the AQL query
RegistrationGraph(doc_key, shown) ==
    LET doc_id == RegDocId(doc_key)
        has_document == doc_key \in DOMAIN reg_docs
        reg_doc == IF has_document THEN reg_docs[doc_key] ELSE None
        sats == IF has_document THEN {SatelliteNode(e._from) : e \in shown} ELSE {}
        reg_doc_node == IF has_document
                        THEN [id |-> doc_id,
                              key |-> reg_doc._key,
                              url |-> reg_doc.url,
                              satellite_count |-> reg_doc.satellite_count,
                              countries |-> reg_doc.countries,
                              type |-> "registration_document"]
                        ELSE None
    IN  [registration_document |-> reg_doc_node,
         nodes |-> IF has_document THEN sats \cup {reg_doc_node} ELSE sats,
         edges |-> {[source |-> sat.id, target |-> doc_id,
                     relationship |-> "registered_in"] : sat \in sats},
         stats |-> [total_nodes |-> IF has_document
                                    THEN Cardinality(sats) + 1
                                    ELSE Cardinality(sats),
                    satellites |-> Cardinality(sats),
                    has_document |-> has_document]]

\* api.py 747-831
get_registration_document_graph(doc_key, limit) ==
    \E shown \in Limited({e \in reg_edges : e._to = RegDocId(doc_key)},
                         limit # 0, limit) :
        LET result == RegistrationGraph(doc_key, shown)
        IN  /\ last' = [op |-> "get_registration_document_graph",
                        doc_key |-> doc_key,
                        limit |-> limit,
                        response |->
                            GraphResponse(result, result.stats.has_document,
                                [registration_document |-> None,
                                 nodes |-> {},
                                 edges |-> {},
                                 stats |-> [total_nodes |-> 0,
                                            satellites |-> 0,
                                            has_document |-> FALSE]],
                                <<"Registration document not found:", doc_key>>)]
            /\ UNCHANGED <<satellites, document, upserted, reg_docs, reg_edges,
                           const_edges, prox_edges, run>>

\* lines 943-1002: the row of the AQL query; an edge of the model has no
\* _key, so the edges returned carry no id
ProximityGraph(orbital_band, proximity_edges) ==
    LET satellite_ids == {e._from : e \in proximity_edges}
                             \cup {e._to : e \in proximity_edges}
        sats == {MergeFlat(SatelliteNode(id),
                     [apogee_km |-> Nested3(SatelliteDocument(id), "canonical",
                                            "orbit", "apogee_km")]) :
                 id \in satellite_ids}
    IN  [orbital_band |-> orbital_band,
         nodes |-> sats,
         edges |-> {[source |-> e._from, target |-> e._to,
                     proximity_score |-> e.proximity_score] : e \in proximity_edges},
         stats |-> [total_satellites |-> Cardinality(sats),
                    total_proximity_edges |->
                        Cardinality({e \in prox_edges : e.orbital_band = orbital_band}),
                    edges_shown |-> Cardinality(proximity_edges)]]

\* api.py 933-1029; LIMIT @limit is always part of the query
get_orbital_proximity_graph(orbital_band, limit) ==
    \E proximity_edges \in Limited({e \in prox_edges : e.orbital_band = orbital_band},
                                   TRUE, limit) :
        LET result == ProximityGraph(orbital_band, proximity_edges)
        IN  /\ last' = [op |-> "get_orbital_proximity_graph",
                        orbital_band |-> orbital_band,
                        limit |-> limit,
                        response |->
                            GraphResponse(result, result.nodes # {},
                                [orbital_band |-> orbital_band,
                                 nodes |-> {},
                                 edges |-> {},
                                 stats |-> [total_satellites |-> 0,
                                            total_proximity_edges |-> 0,
                                            edges_shown |-> 0]],
                                <<"No proximity data found for orbital band",
                                  orbital_band>>)]
            /\ UNCHANGED <<satellites, document, upserted, reg_docs, reg_edges,
                           const_edges, prox_edges, run>>

----------------------------------------------------------------------------
(* SpecGraph: the three builders and the three graph endpoints over stores
   of satellites with constellation, registration and orbital data *)

GraphSize == 3

GRAPH_DATA ==
    {MergeFlat(Orbit("LEO-Polar", 50000, 48000, 9700),
               [satellite_constellation |-> S("Starlink"),
                registration_document |-> S(<<"A", "/", "1">>)]),
     MergeFlat(Orbit("GEO", 3578600, 3578600, 10),
               [satellite_constellation |-> S("OneWeb"),
                registration_document |-> S(<<"B">>)]),
     [name |-> S("ISS")]}

GraphStores(n) == {StoreOf(n, "kaggle", data) : data \in [1..n -> GRAPH_DATA]}

GRAPH_CONSTELLATIONS == {S("Starlink"), S("OneWeb"), S("FakeConstellation")}

GRAPH_DOC_KEYS == {<<"A", "_", "1">>, <<"B">>, <<"C">>}

GRAPH_BANDS == {S("LEO-Polar"), S("GEO"), S("MEO")}

InitGraph ==
    /\ satellites \in GraphStores(GraphSize)
    /\ document = EmptyDict
    /\ last = NoRun
    /\ upserted = {}
    /\ NoGraph

BuildGraphs ==
    \/ populate_constellation_network(FALSE)
    \/ \E satellites_with_reg_doc \in Orderings(RegistrationQuery(satellites)) :
           populate_registration_network(FALSE, satellites_with_reg_doc)
    \/ PersistProximity(FALSE, None,
                        AllProximityEdges(ProximityQuery(satellites, None)))

GetConstellationGraph ==
    \E constellation_name \in GRAPH_CONSTELLATIONS : \E limit \in {0, 1} :
        get_constellation_graph(constellation_name, limit)

GetRegistrationDocumentGraph ==
    \E doc_key \in GRAPH_DOC_KEYS : \E limit \in {0, 1} :
        get_registration_document_graph(doc_key, limit)

GetOrbitalProximityGraph ==
    \E orbital_band \in GRAPH_BANDS : \E limit \in {0, 1, 50} :
        get_orbital_proximity_graph(orbital_band, limit)

NextGraph ==
    \/ BuildGraphs
    \/ GetConstellationGraph
    \/ GetRegistrationDocumentGraph
    \/ GetOrbitalProximityGraph

SpecGraph == InitGraph /\ [][NextGraph]_vars

\* the request of the last call names nothing the graph collections hold
NoGraphDataFor(request) ==
    IF request.op = "get_constellation_graph"
    THEN \A e \in const_edges : e.constellation_name # request.constellation_name
    ELSE IF request.op = "get_registration_document_graph"
    THEN request.doc_key \notin DOMAIN reg_docs
    ELSE IF request.op = "get_orbital_proximity_graph"
    THEN \A e \in prox_edges : e.orbital_band # request.orbital_band
    ELSE FALSE

\* the stats of an endpoint with every counter zero and every flag false
ZeroStats(op) ==
    IF op = "get_constellation_graph"
    THEN [total_satellites |-> 0, members |-> 0, has_hub |-> FALSE]
    ELSE IF op = "get_registration_document_graph"
    THEN [total_nodes |-> 0, satellites |-> 0, has_document |-> FALSE]
    ELSE [total_satellites |-> 0, total_proximity_edges |-> 0, edges_shown |-> 0]

EmptyGraphResponse(request) ==
    /\ request.response.status_code = 200
    /\ request.response.data.nodes = {}
    /\ request.response.data.edges = {}
    /\ request.response.data.stats = ZeroStats(request.op)
    /\ "message" \in DOMAIN request.response

\* C16: a graph endpoint called with a constellation name, document key or
\* band for which the graph collections hold nothing answers with status
\* 200, empty nodes and edges, stats that are all zero or false, and a
\* message.
C16_EmptyShapeForUnknown ==
    [][(/\ last' # last
        /\ NoGraphDataFor(last'))
           => EmptyGraphResponse(last')]_vars

\* the collections hold graphs of all three kinds and the last call asked
\* for a name they do not hold
C16_Witness ==
    /\ const_edges # {}
    /\ reg_docs # EmptyDict
    /\ prox_edges # {}
    /\ NoGraphDataFor(last)
    /\ EmptyGraphResponse(last)

----------------------------------------------------------------------------
(* TLE fetch with retries, api.py 582-641 *)

\* max_retries, line 590
MAX_RETRIES == 3

\* what requests.get and response.json() can do at one attempt
TLE_OUTCOMES ==
    {"ok", "ok_without_name", "ok_invalid_json", "not_found", "server_error",
     "connection_error", "timeout", "other_exception"}

\* a fetch that also retries after a response with another status
RetriedAlsoOnServerError(outcome) ==
    outcome \in {"connection_error", "timeout", "server_error"}

\* line 609: except (ConnectionError, Timeout)
Retried(outcome) == outcome \in {"connection_error", "timeout"}

\* line 611: wait_time = 0.5 * (2 ** attempt), in tenths of a second
WaitTime(attempt) == 5 * (2 ^ attempt)

NoradName(norad_id) == S(<<"NORAD", norad_id>>)

\* lines 595-608 and 616-618: what the fetch returns at an attempt that is
\* not retried
TleResult(norad_id, outcome) ==
    IF outcome = "ok"
    THEN [name |-> S("ISS (ZARYA)"), line1 |-> S("1 25544U"), line2 |-> S("2 25544"),
          source |-> "tle-api", date |-> S("2024-01-01")]
    ELSE IF outcome = "ok_without_name"
    THEN [name |-> NoradName(norad_id), line1 |-> S("1 25544U"),
          line2 |-> S("2 25544"), source |-> "tle-api", date |-> None]
    ELSE None

\* get_current_tle, lines 624-641, first half: the call of the fetch
StartFetch(norad_id) ==
    /\ IF run.op = "fetch_tle_by_norad_id" THEN run.pc = "returned" ELSE TRUE
    /\ run' = [op |-> "fetch_tle_by_norad_id",
               norad_id |-> norad_id,
               pc |-> "request",
               attempt |-> 0,
               outcomes |-> <<>>,
               waited |-> <<>>,
               found |-> FALSE,
               result |-> None]
    /\ UNCHANGED <<satellites, document, last, upserted, reg_docs, reg_edges,
                   const_edges, prox_edges>>

\* lines 592-618: one requests.get and what follows it up to the sleep or
\* the return; on return get_current_tle, lines 629-641, builds its answer
RequestTle(outcome) ==
    /\ run.op = "fetch_tle_by_norad_id"
    /\ run.pc = "request"
    /\ LET outcomes == Append(run.outcomes, outcome)
           tle == TleResult(run.norad_id, outcome)
           found == outcome \in {"ok", "ok_without_name"}
       IN  IF Retried(outcome) /\ run.attempt < MAX_RETRIES - 1
           THEN /\ run' = [run EXCEPT !.outcomes = outcomes, !.pc = "sleep"]
                /\ last' = last
           ELSE /\ run' = [run EXCEPT !.outcomes = outcomes, !.pc = "returned",
                                      !.found = found, !.result = tle]
                /\ last' = [op |-> "get_current_tle",
                            norad_id |-> run.norad_id,
                            found |-> found,
                            response |->
                                IF found
                                THEN [data |-> tle, source |-> tle.source,
                                      timestamp |-> TS]
                                ELSE [data |-> None,
                                      message |-> <<"TLE data not found for NORAD ID",
                                                    run.norad_id>>,
                                      timestamp |-> TS]]
    /\ UNCHANGED <<satellites, document, upserted, reg_docs, reg_edges,
                   const_edges, prox_edges>>

\* lines 611-613 and the next turn of the loop at line 591
SleepBeforeRetry ==
    /\ run.op = "fetch_tle_by_norad_id"
    /\ run.pc = "sleep"
    /\ run' = [run EXCEPT !.waited = Append(@, WaitTime(run.attempt)),
                          !.attempt = @ + 1,
                          !.pc = IF run.attempt + 1 < MAX_RETRIES
                                 THEN "request" ELSE "returned"]
    /\ UNCHANGED <<satellites, document, last, upserted, reg_docs, reg_edges,
                   const_edges, prox_edges>>

----------------------------------------------------------------------------
(* SpecTle: calls of /v2/tle/{norad_id}, one after the other *)

TLE_NORAD_IDS == {"25544", "99999"}

InitTle == InitRecord

GetCurrentTle == \E norad_id \in TLE_NORAD_IDS : StartFetch(norad_id)

RequestTleApi == \E outcome \in TLE_OUTCOMES : RequestTle(outcome)

NextTle ==
    \/ GetCurrentTle
    \/ RequestTleApi
    \/ SleepBeforeRetry

SpecTle == InitTle /\ [][NextTle]_vars

Fetching == run.op = "fetch_tle_by_norad_id"

----------------------------------------------------------------------------
(* Document link and metadata caches, api.py 168-172, 253-409 *)

CACHE_TTL == 3600

\* time.time() at a tick of the clock of the model: a tick is 1200 s
Now(clock) == clock * 1200

\* a cache that keeps an entry through the second at which its TTL ends
CacheFreshThroughTtl(cache, cache_time, cache_key, current_time) ==
    /\ cache_key \in DOMAIN cache
    /\ current_time - (IF cache_key \in DOMAIN cache_time
                       THEN cache_time[cache_key] ELSE 0) <= CACHE_TTL

\* lines 265-267 and 391-393: the key is cached and
\* current_time - cache_time.get(cache_key, 0) < CACHE_TTL
CacheFresh(cache, cache_time, cache_key, current_time) ==
    /\ cache_key \in DOMAIN cache
    /\ current_time - (IF cache_key \in DOMAIN cache_time
                       THEN cache_time[cache_key] ELSE 0) < CACHE_TTL

\* cache[cache_key] = value
Stored(cache, cache_key, value) == MergeFlat(cache, [k \in {cache_key} |-> value])

NoCaches ==
    [op |-> "api",
     clock |-> 0,
     doc_link_cache |-> EmptyDict,
     doc_link_cache_time |-> EmptyDict,
     doc_metadata_cache |-> EmptyDict,
     doc_metadata_cache_time |-> EmptyDict]

\* fetch_english_doc_link, lines 253-354; fetched is what try_fetch and the
\* searches of lines 316-350 come up with, a link or None
fetch_english_doc_link(registry_doc_path, fetched) ==
    LET current_time == Now(run.clock)
        cache_key == <<"doc_", registry_doc_path>>
    IN  /\ run.op = "api"
        /\ IF registry_doc_path = ""
           THEN /\ last' = [op |-> "fetch_english_doc_link",
                            key |-> registry_doc_path,
                            time |-> current_time,
                            outbound |-> FALSE,
                            outcome |-> None]
                /\ run' = run
           ELSE IF CacheFresh(run.doc_link_cache, run.doc_link_cache_time,
                              cache_key, current_time)
           THEN /\ last' = [op |-> "fetch_english_doc_link",
                            key |-> registry_doc_path,
                            time |-> current_time,
                            outbound |-> FALSE,
                            outcome |-> run.doc_link_cache[cache_key]]
                /\ run' = run
           ELSE /\ last' = [op |-> "fetch_english_doc_link",
                            key |-> registry_doc_path,
                            time |-> current_time,
                            outbound |-> TRUE,
                            outcome |-> fetched]
                /\ run' = [run EXCEPT
                              !.doc_link_cache = Stored(@, cache_key, fetched),
                              !.doc_link_cache_time =
                                  Stored(@, cache_key, current_time)]
        /\ UNCHANGED <<satellites, document, upserted, reg_docs, reg_edges,
                       const_edges, prox_edges>>

\* get_document_metadata, lines 378-409; metadata is what
\* extract_document_metadata returns, a dict or None
get_document_metadata(url, metadata) ==
    LET current_time == Now(run.clock)
        cache_key == url
    IN  /\ run.op = "api"
        /\ IF url = ""
           THEN /\ last' = [op |-> "get_document_metadata",
                            key |-> url,
                            time |-> current_time,
                            outbound |-> FALSE,
                            outcome |-> None,
                            response |-> [error |-> "No URL provided"]]
                /\ run' = run
           ELSE IF CacheFresh(run.doc_metadata_cache, run.doc_metadata_cache_time,
                              cache_key, current_time)
           THEN LET result == [run.doc_metadata_cache[cache_key]
                                   EXCEPT !.cached = TRUE]
                IN  /\ last' = [op |-> "get_document_metadata",
                                key |-> url,
                                time |-> current_time,
                                outbound |-> FALSE,
                                outcome |-> result.metadata,
                                response |-> result]
                    /\ run' = [run EXCEPT
                                  !.doc_metadata_cache = Stored(@, cache_key, result)]
           ELSE LET result == [url |-> url,
                               metadata |-> metadata,
                               found |-> metadata # None,
                               cached |-> FALSE]
                IN  /\ last' = [op |-> "get_document_metadata",
                                key |-> url,
                                time |-> current_time,
                                outbound |-> TRUE,
                                outcome |-> metadata,
                                response |-> result]
                    /\ run' = [run EXCEPT
                                  !.doc_metadata_cache = Stored(@, cache_key, result),
                                  !.doc_metadata_cache_time =
                                      Stored(@, cache_key, current_time)]
        /\ UNCHANGED <<satellites, document, upserted, reg_docs, reg_edges,
                       const_edges, prox_edges>>

----------------------------------------------------------------------------
(* SpecCache: lookups of document links and metadata as time passes *)

MaxClock == 5

DOC_PATHS == {"", "/a.html", "/b.html"}

DOC_URLS == {"", "https://a.pdf"}

LINK_OUTCOMES == {S("https://english"), S("https://pdf"), None}

METADATA_OUTCOMES == {S("metadata"), None}

InitCache ==
    /\ satellites = EmptyDict
    /\ document = EmptyDict
    /\ last = NoRun
    /\ upserted = {}
    /\ reg_docs = EmptyDict
    /\ reg_edges = {}
    /\ const_edges = {}
    /\ prox_edges = {}
    /\ run = NoCaches

Tick ==
    /\ run.op = "api"
    /\ run.clock < MaxClock
    /\ run' = [run EXCEPT !.clock = @ + 1]
    /\ UNCHANGED <<satellites, document, last, upserted, reg_docs, reg_edges,
                   const_edges, prox_edges>>

FetchEnglishDocLink ==
    \E registry_doc_path \in DOC_PATHS : \E fetched \in LINK_OUTCOMES :
        fetch_english_doc_link(registry_doc_path, fetched)

GetDocumentMetadata ==
    \E url \in DOC_URLS : \E metadata \in METADATA_OUTCOMES :
        get_document_metadata(url, metadata)

NextCache ==
    \/ Tick
    \/ FetchEnglishDocLink
    \/ GetDocumentMetadata

SpecCache == InitCache /\ [][NextCache]_vars

\* the cache entry of the key of a lookup, in the caches c: the outcome
\* stored and the time it was stored at
LookupKey(lookup) ==
    IF lookup.op = "fetch_english_doc_link" THEN <<"doc_", lookup.key>>
    ELSE lookup.key

IsStored(c, lookup) ==
    IF lookup.op = "fetch_english_doc_link"
    THEN LookupKey(lookup) \in DOMAIN c.doc_link_cache
    ELSE LookupKey(lookup) \in DOMAIN c.doc_metadata_cache

StoredOutcome(c, lookup) ==
    IF lookup.op = "fetch_english_doc_link"
    THEN c.doc_link_cache[LookupKey(lookup)]
    ELSE c.doc_metadata_cache[LookupKey(lookup)].metadata

StoredAt(c, lookup) ==
    IF lookup.op = "fetch_english_doc_link"
    THEN c.doc_link_cache_time[LookupKey(lookup)]
    ELSE c.doc_metadata_cache_time[LookupKey(lookup)]

\* C18: a lookup of a key whose outcome, found or not found, was stored at
\* time t returns that outcome without an outbound request and leaves t as
\* it is when it comes before t + 3600 s; at or after t + 3600 s, and for a
\* key not yet stored, it fetches, stores what it fetched and sets t to the
\* time of the lookup.
C18_CacheHonoursTtl ==
    [][(/\ run'.clock = run.clock
        /\ last'.key # "")
           => IF IsStored(run, last') /\ last'.time < StoredAt(run, last') + 3600
              THEN /\ ~last'.outbound
                   /\ last'.outcome = StoredOutcome(run, last')
                   /\ StoredOutcome(run', last') = StoredOutcome(run, last')
                   /\ StoredAt(run', last') = StoredAt(run, last')
              ELSE /\ last'.outbound
                   /\ StoredOutcome(run', last') = last'.outcome
                   /\ StoredAt(run', last') = last'.time]_vars

\* a not-found outcome stored at 3600 s, the end of an earlier TTL, was
\* returned from the cache at 6000 s without an outbound request
C18_Witness ==
    /\ run.op = "api"
    /\ run.clock = 5
    /\ last.op = "fetch_english_doc_link"
    /\ last.key = "/a.html"
    /\ last.time = 6000
    /\ ~last.outbound
    /\ last.outcome = None
    /\ run.doc_link_cache_time[<<"doc_", "/a.html">>] = 3600
    /\ run.doc_link_cache[<<"doc_", "/a.html">>] = None

----------------------------------------------------------------------------
(* Startup validation, test_startup.py 13-208 *)

\* the outcome of a check: what it returns, whether it raised instead, and
\* what it appended to self.errors and self.warnings
Outcome(passed, raised, errors, warnings) ==
    [passed |-> passed, raised |-> raised, errors |-> errors, warnings |-> warnings]

\* lines 18-26
check_python_version(env) ==
    IF env.python_ok THEN Outcome(TRUE, FALSE, <<>>, <<>>)
    ELSE Outcome(FALSE, FALSE, <<"Python 3.11+ required">>, <<>>)

\* lines 28-54
check_required_modules(env) ==
    IF env.modules_ok THEN Outcome(TRUE, FALSE, <<>>, <<>>)
    ELSE Outcome(FALSE, FALSE,
                 <<"Missing required Python modules",
                   "Install with: pip install -r requirements.txt">>, <<>>)

\* lines 56-85; subprocess.run raises what the except clauses do not name,
\* a PermissionError for one
check_docker(env) ==
    IF env.docker = "ok" THEN Outcome(TRUE, FALSE, <<>>, <<>>)
    ELSE IF env.docker = "raises" THEN Outcome(FALSE, TRUE, <<>>, <<>>)
    ELSE Outcome(FALSE, FALSE, <<"Docker is not installed">>, <<>>)

\* lines 87-116
check_nodejs(env) ==
    IF env.nodejs = "ok" THEN Outcome(TRUE, FALSE, <<>>, <<>>)
    ELSE Outcome(FALSE, FALSE, <<"Node.js is not installed">>, <<>>)

\* a port check that fails when a port is busy
check_port_availability_failing(env) ==
    IF env.ports_busy
    THEN Outcome(FALSE, FALSE, <<>>,
                 <<"Ports already in use",
                   "The start.sh script will attempt to clean them up">>)
    ELSE Outcome(TRUE, FALSE, <<>>, <<>>)

\* lines 121-148
check_port_availability(env) ==
    IF env.ports_busy
    THEN Outcome(TRUE, FALSE, <<>>,
                 <<"Ports already in use",
                   "The start.sh script will attempt to clean them up">>)
    ELSE Outcome(TRUE, FALSE, <<>>, <<>>)

\* lines 150-167
check_data_files(env) ==
    IF env.data_missing
    THEN Outcome(TRUE, FALSE, <<>>,
                 <<"Data files not found",
                   "Some API endpoints may not work without data files">>)
    ELSE Outcome(TRUE, FALSE, <<>>, <<>>)

\* lines 171-178: checks, with the names the errors of line 192 carry
Checks(env) ==
    <<[name |-> "Python version", outcome |-> check_python_version(env)],
      [name |-> "Required Python modules", outcome |-> check_required_modules(env)],
      [name |-> "Docker", outcome |-> check_docker(env)],
      [name |-> "Node.js and npm", outcome |-> check_nodejs(env)],
      [name |-> "Port availability", outcome |-> check_port_availability(env)],
      [name |-> "Data files", outcome |-> check_data_files(env)]>>

RECURSIVE RunChecks(_, _)
\* lines 182-193: the loop over the checks, from the validator state v
RunChecks(v, checks) ==
    IF checks = <<>> THEN v
    ELSE LET check == Head(checks)
             o == check.outcome
         IN  RunChecks(
                 [errors |-> IF o.raised
                             THEN Append(v.errors, <<check.name, "check failed">>)
                             ELSE v.errors \o [e \in 1..Len(o.errors) |->
                                                  <<o.errors[e]>>],
                  warnings |-> v.warnings \o o.warnings,
                  all_passed |-> v.all_passed /\ o.passed /\ ~o.raised],
                 Tail(checks))

\* StartupValidator(), lines 14-16
NewValidator ==
    /\ run' = [op |-> "StartupValidator", errors |-> <<>>, warnings |-> <<>>,
               calls |-> 0]
    /\ last' = [op |-> "__init__"]
    /\ UNCHANGED <<satellites, document, upserted, reg_docs, reg_edges,
                   const_edges, prox_edges>>

\* validate_all, lines 169-208, in the environment env
validate_all(env) ==
    LET v == RunChecks([errors |-> run.errors, warnings |-> run.warnings,
                        all_passed |-> TRUE], Checks(env))
    IN  /\ run.op = "StartupValidator"
        /\ run' = [run EXCEPT !.errors = v.errors, !.warnings = v.warnings,
                              !.calls = @ + 1]
        /\ last' = [op |-> "validate_all",
                    env |-> env,
                    errors_before |-> run.errors,
                    warnings_before |-> run.warnings,
                    result |-> IF v.errors # <<>> THEN FALSE ELSE v.all_passed]
        /\ UNCHANGED <<satellites, document, upserted, reg_docs, reg_edges,
                       const_edges, prox_edges>>

----------------------------------------------------------------------------
(* SpecStartup: validators and their validations in every environment *)

MaxValidations == 2

ENVIRONMENTS ==
    [python_ok : BOOLEAN,
     modules_ok : BOOLEAN,
     docker : {"ok", "not_installed", "raises"},
     nodejs : {"ok", "not_installed"},
     ports_busy : BOOLEAN,
     data_missing : BOOLEAN]

InitStartup == InitRecord

ValidateAll ==
    /\ run.op = "StartupValidator"
    /\ run.calls < MaxValidations
    /\ \E env \in ENVIRONMENTS : validate_all(env)

NextStartup ==
    \/ NewValidator
    \/ ValidateAll

SpecStartup == InitStartup /\ [][NextStartup]_vars

\* the four checks that can fail all returned True
ChecksPassed(env) ==
    /\ env.python_ok
    /\ env.modules_ok
    /\ env.docker = "ok"
    /\ env.nodejs = "ok"

\* C19: validate_all returns True when every check returns True and the
\* validator holds no error, False when a check returns False or raises;
\* busy ports and missing data files change neither the result nor the
\* errors, they add warnings.
C19_ValidateAllResult ==
    last.op = "validate_all" =>
        /\ (ChecksPassed(last.env) /\ last.errors_before = <<>>) => last.result
        /\ ~ChecksPassed(last.env) => ~last.result
        /\ ChecksPassed(last.env) => run.errors = last.errors_before
        /\ (last.env.ports_busy \/ last.env.data_missing) =>
               Len(run.warnings) > Len(last.warnings_before)

\* a validation that passed with busy ports and missing data files, on a
\* validator without errors
C19_Witness ==
    /\ last.op = "validate_all"
    /\ last.result
    /\ last.env.ports_busy
    /\ last.env.data_missing
    /\ run.warnings # <<>>
    /\ run.errors = <<>>
    /\ run.calls = 2

----------------------------------------------------------------------------
(* Claims about the default priority of the TLE sources *)

\* C20: in a document resolved under a default priority list, that of
\* create_satellite_document, of import_kaggle_catalog or of
\* update_canonical itself, a canonical scalar field that spacetrack (or
\* tleapi) and kaggle both hold, and no other source, takes the value of
\* spacetrack (tleapi).
C20_TleSourcesOutrankKaggle ==
    last.op = "update_canonical" =>
        \A s \in {"spacetrack", "tleapi"} :
            \A f \in Range(canonical_fields) :
                HoldersOf(document, f) = {s, "kaggle"}
                    => /\ f \in DOMAIN document.canonical
                       /\ document.canonical[f] = document.sources[s][f]

----------------------------------------------------------------------------
(* SpecArrival: one upsert per source to one identifier, in every order *)

ARRIVAL_SOURCES == {"unoosa", "celestrak", "tleapi", "spacetrack", "kaggle"}

\* what a source may send: a name, an orbit without a name, or both with a
\* country and a TLE line
ArrivalData(source) ==
    {SubRecords(source)[2], SubRecords(source)[4], SubRecords(source)[5]}

HasSource(coll, identifier, source) ==
    \E k \in FindByIdentifier(coll, identifier) : source \in DOMAIN coll[k].sources

InitArrival == InitRecord

UpsertArrival ==
    \E source \in ARRIVAL_SOURCES : \E data \in ArrivalData(source) :
        /\ ~HasSource(satellites, ISS, source)
        /\ create_satellite_document(ISS, source, data)

NextArrival == UpsertArrival

SpecArrival == InitArrival /\ [][NextArrival]_vars

\* the highest-ranked of the sources holding a value for a scalar field
TopHolder(d, f) ==
    CHOOSE s \in HoldersOf(d, f) :
        \A o \in HoldersOf(d, f) : Rank(s, DocPriority(d)) <= Rank(o, DocPriority(d))

\* C21: after any sequence of upserts to one identifier, one per source,
\* the stored canonical view (updated_at aside) depends on the set of
\* upserts only: it is what update_canonical gives for the stored sources
\* under every iteration order of the sources dict, and each canonical
\* scalar field some source holds carries the value of the highest-ranked
\* holder, whether that source arrived before or after the others.
C21_ArrivalOrderIrrelevant ==
    \A k \in DOMAIN satellites :
        LET stored == satellites[k]
        IN  /\ \A o \in Orders(DOMAIN stored.sources) :
                   CanonicalView(stored.canonical)
                       = CanonicalView(Canonical(MergeFlat(stored, [sources_order |-> o])))
            /\ \A f \in Range(canonical_fields) :
                   HoldersOf(stored, f) # {}
                       => /\ f \in DOMAIN stored.canonical
                          /\ stored.canonical[f] = stored.sources[TopHolder(stored, f)][f]

\* unoosa arrived last, after kaggle and spacetrack had resolved the name,
\* and the stored canonical name is now unoosa's
C21_Witness ==
    /\ LastUpdated
    /\ last.source = "unoosa"
    /\ last.data = SubRecords("unoosa")[2]
    /\ {"kaggle", "spacetrack", "unoosa"} \subseteq HoldersOf(satellites[LastKey], "name")
    /\ satellites[LastKey].canonical["name"] = S("unoosa")

----------------------------------------------------------------------------
(* SpecRace: callers of create_satellite_document for one identifier, one
   call per source, whose queries and writes interleave *)

RACE_SOURCES == {"unoosa", "kaggle", "tleapi"}

RaceData(source) == {SubRecords(source)[2], SubRecords(source)[5]}

Idle == [pc |-> "idle"]

InitRace ==
    /\ satellites = EmptyDict
    /\ document = EmptyDict
    /\ last = NoRun
    /\ upserted = {}
    /\ reg_docs = EmptyDict
    /\ reg_edges = {}
    /\ const_edges = {}
    /\ prox_edges = {}
    /\ run = [op |-> "race", callers |-> [p \in RACE_SOURCES |-> Idle]]

\* lines 174-185: the caller's query has returned
ReadExisting(p, data) ==
    /\ run.callers[p].pc = "idle"
    /\ run' = [run EXCEPT !.callers[p] = [pc |-> "read", data |-> data, seen |-> satellites]]
    /\ last' = [op |-> "read", source |-> p]
    /\ UNCHANGED <<satellites, document, upserted, reg_docs, reg_edges,
                   const_edges, prox_edges>>

\* lines 187-197 or 199-226: the caller builds the document from what it
\* read and writes it
WriteDocument(p) ==
    /\ run.callers[p].pc = "read"
    /\ LET c == run.callers[p]
       IN  /\ satellites' = StoreAfterWrite(c.seen, satellites, ISS, p, c.data)
           /\ last' = [op |-> "write", source |-> p, data |-> c.data,
                       seen |-> c.seen, before |-> satellites]
    /\ run' = [run EXCEPT !.callers[p] = [pc |-> "returned"]]
    /\ upserted' = upserted \cup {ISS}
    /\ UNCHANGED <<document, reg_docs, reg_edges, const_edges, prox_edges>>

Read == \E p \in RACE_SOURCES : \E data \in RaceData(p) : ReadExisting(p, data)

Write == \E p \in RACE_SOURCES : WriteDocument(p)

NextRace ==
    \/ Read
    \/ Write

SpecRace == InitRace /\ [][NextRace]_vars

\* the sources of the identifier's record in a collection, none when it
\* has no record
SourcesIn(coll, identifier) ==
    UNION {DOMAIN coll[k].sources : k \in FindByIdentifier(coll, identifier)}

\* the write lost nothing: the record holds every sub-record it held
\* before, the values the caller sent, and both sources_available and the
\* priority the canonical view was resolved with name every source
NothingLost(before, stored, source, data) ==
    /\ \A k \in FindByIdentifier(before, ISS) :
           \A s \in (DOMAIN before[k].sources) \ {source} :
               s \in DOMAIN stored.sources /\ stored.sources[s] = before[k].sources[s]
    /\ source \in DOMAIN stored.sources
    /\ \A f \in DOMAIN data : stored.sources[source][f] = data[f]
    /\ Range(stored.metadata.sources_available) = DOMAIN stored.sources
    /\ Range(stored.canonical.source_priority) = DOMAIN stored.sources

----------------------------------------------------------------------------
(* Claims about the candidates of a proximity build *)

\* the satellites the last build read: a complete orbital triple, a band,
\* and the band of the filter when the build had one
InBuildScope(k) ==
    /\ Nested3(satellites[k], "canonical", "orbit", "apogee_km") # None
    /\ Nested3(satellites[k], "canonical", "orbit", "perigee_km") # None
    /\ Nested3(satellites[k], "canonical", "orbit", "inclination_degrees") # None
    /\ Nested(satellites[k], "canonical", "orbital_band") # None
    /\ (run.orbital_band_filter # None
           => satellites[k].canonical.orbital_band = run.orbital_band_filter)

OrbitOf(k) ==
    [apogee_km |-> OrbitValue(SatelliteId(k), "apogee_km"),
     perigee_km |-> OrbitValue(SatelliteId(k), "perigee_km"),
     inclination_degrees |-> OrbitValue(SatelliteId(k), "inclination_degrees")]

\* the candidates of a satellite: the other satellites of its band within
\* the three thresholds
CandidatesOf(k) ==
    IF ~InBuildScope(k) THEN {}
    ELSE {t \in (DOMAIN satellites) \ {k} :
             /\ InBuildScope(t)
             /\ satellites[t].canonical.orbital_band = satellites[k].canonical.orbital_band
             /\ WithinThresholds(OrbitOf(k), OrbitOf(t))}

PairScore(a, b) == calculate_proximity_score(OrbitOf(a), OrbitOf(b))

KeptOf(k) == {e._to[2] : e \in OutEdges(SatelliteId(k))}

RECURSIVE SumOver(_, _)
SumOver(f, ks) ==
    IF ks = {} THEN 0
    ELSE LET k == CHOOSE x \in ks : TRUE IN f[k] + SumOver(f, ks \ {k})

\* C23: after a proximity build, the edges kept for every satellite S go to
\* candidates of S (satellites of its band within the thresholds, whichever
\* of the two comes first in the list), their number is the number of
\* candidates of S or 10 if S has more, no candidate dropped for S has a
\* lower score than a kept one, and no pair was entered twice: the number
\* of edges inserted is the sum of these numbers and the stored edges are
\* as many.
C23_KeptAreLowestScoreCandidates ==
    ProximityBuilt =>
        /\ \A k \in DOMAIN satellites :
               /\ KeptOf(k) \subseteq CandidatesOf(k)
               /\ Cardinality(KeptOf(k))
                      = Min(Cardinality(CandidatesOf(k)), MAX_EDGES_PER_SATELLITE)
               /\ \A d \in CandidatesOf(k) \ KeptOf(k) : \A t \in KeptOf(k) :
                      PairScore(k, d) >= PairScore(k, t)
        /\ run.total_inserted
               = SumOver([k \in DOMAIN satellites |->
                             Min(Cardinality(CandidatesOf(k)), MAX_EDGES_PER_SATELLITE)],
                         DOMAIN satellites)
        /\ Cardinality(prox_edges) = run.total_inserted

\* a build in which a satellite had more than 10 candidates, kept 10 and
\* dropped one whose score is higher than that of a kept one
C23_Witness ==
    /\ ProximityBuilt
    /\ \E k \in DOMAIN satellites :
           /\ Cardinality(CandidatesOf(k)) > MAX_EDGES_PER_SATELLITE
           /\ Cardinality(KeptOf(k)) = MAX_EDGES_PER_SATELLITE
           /\ \E d \in CandidatesOf(k) \ KeptOf(k) : \E t \in KeptOf(k) :
                  PairScore(k, d) > PairScore(k, t)

----------------------------------------------------------------------------
(* Claims about the direction of proximity edges *)

\* the candidates of a that the sorted list of a puts before b: a lower
\* score, or the same score and an earlier place in the band list, which
\* is sorted by identifier
AheadOf(a, b) ==
    {c \in CandidatesOf(a) \ {b} :
        \/ PairScore(a, c) < PairScore(a, b)
        \/ /\ PairScore(a, c) = PairScore(a, b)
           /\ LexLess(satellites[c].identifier, satellites[b].identifier)}

\* b is in the top-K cut of a
InCutOf(a, b) ==
    b \in CandidatesOf(a) /\ Cardinality(AheadOf(a, b)) < MAX_EDGES_PER_SATELLITE

EdgesBetween(a, b) ==
    {e \in prox_edges : e._from = SatelliteId(a) /\ e._to = SatelliteId(b)}

\* C24: after a proximity build, the directed edge A->B is stored, once,
\* exactly when B is in the top-10 cut of A's own sorted candidate list,
\* whether or not A is in the cut of B; a pair each of whose satellites is
\* in the other's cut is stored as two edges, one in each direction.
C24_EdgeIffInOwnCut ==
    ProximityBuilt =>
        \A a, b \in DOMAIN satellites :
            /\ Cardinality(EdgesBetween(a, b)) = IF InCutOf(a, b) THEN 1 ELSE 0
            /\ (InCutOf(a, b) /\ InCutOf(b, a))
                   => Cardinality(EdgesBetween(a, b) \cup EdgesBetween(b, a)) = 2

\* a build stored A->B and not B->A for a candidate pair, and stored both
\* directions for another pair
C24_Witness ==
    /\ ProximityBuilt
    /\ \E a, b \in DOMAIN satellites :
           /\ b \in CandidatesOf(a)
           /\ EdgesBetween(a, b) # {}
           /\ EdgesBetween(b, a) = {}
    /\ \E a, b \in DOMAIN satellites :
           /\ EdgesBetween(a, b) # {}
           /\ EdgesBetween(b, a) # {}

----------------------------------------------------------------------------
(* Claims about the scope of a proximity rebuild *)

EdgesOutsideBand(edges, band) == {e \in edges : e.orbital_band # band}

\* C25: a proximity build with a band filter that is not a dry run leaves
\* the stored proximity edges of every other band as they were.
C25_OtherBandsKept ==
    [][(/\ run'.op = "populate_orbital_proximity"
        /\ ~run'.dry_run
        /\ run'.orbital_band_filter # None)
          => EdgesOutsideBand(prox_edges', run'.orbital_band_filter)
                 = EdgesOutsideBand(prox_edges, run'.orbital_band_filter)]_vars

----------------------------------------------------------------------------
(* Claims about the hub choice of a constellation build *)

Labelled == {k \in DOMAIN satellites : ConstellationOf(k) # None}

\* C26: in a constellation run, dry or not, the hub designated for each
\* label is the member whose identifier is smaller than that of every other
\* satellite carrying the label; a build emits as many edges, inserted or
\* refused, as there are labelled satellites minus distinct labels.
C26_HubIsSmallestIdentifier ==
    run.op = "populate_constellation_network" =>
        /\ DOMAIN run.constellation_hubs = ConstellationLabels
        /\ \A c \in ConstellationLabels :
               LET h == run.constellation_hubs[c]
               IN  /\ h \in MembersOf(c)
                   /\ \A m \in MembersOf(c) \ {h} :
                          LexLess(satellites[h].identifier, satellites[m].identifier)
        /\ ~run.dry_run =>
               run.total_inserted + run.total_errors
                   = Cardinality(Labelled) - Cardinality(ConstellationLabels)

\* a build over two labels, one carried by three satellites, that emitted
\* two edges
C26_Witness ==
    /\ ConstellationBuilt
    /\ Cardinality(ConstellationLabels) = 2
    /\ \E c \in ConstellationLabels : Cardinality(MembersOf(c)) = 3
    /\ Cardinality(Labelled) = 4
    /\ run.total_inserted = 2
    /\ Cardinality(const_edges) = 2

----------------------------------------------------------------------------
(* Claims about the key of a registration document node *)

\* C27: after a registration build, the key of every document node is the
\* satellite-key rule (db.py 201-208) applied to its reference string, and
\* every edge targets the node whose key that rule gives for the edge's
\* reference string.
C27_NodeKeyBySatelliteKeyRule ==
    RegistrationBuilt =>
        /\ \A k \in DOMAIN reg_docs : k = SatelliteKey(reg_docs[k].url[2])
        /\ \A e \in reg_edges :
               e._to = RegDocId(SatelliteKey(e.registration_document[2]))

----------------------------------------------------------------------------
(* Claims about the resolution of the orbital fields *)

\* C28: update_canonical sets each orbital field that some source holds
\* with a non-null, non-empty value to the value of the highest-ranked such
\* source, as it does for the scalar fields: an empty string in a source of
\* higher priority does not stand in for it.
C28_OrbitSkipsEmptyStrings ==
    last.op = "update_canonical" =>
        \A f \in Range(orbital_fields) :
            HoldersOf(document, f) # {}
                => /\ f \in DOMAIN document.canonical.orbit
                   /\ document.canonical.orbit[f]
                          = document.sources[TopHolder(document, f)][f]

----------------------------------------------------------------------------
(* Claims about the consistency of the registration graph *)

RegistrationOut(k) == {e \in reg_edges : e._from = SatelliteId(k)}

RegistrationIn(key) == {e \in reg_edges : e._to = RegDocId(key)}

Registered ==
    {k \in DOMAIN satellites :
        Nested(satellites[k], "canonical", "registration_document") # None}

BuiltWithoutErrors ==
    RegistrationBuilt /\ run.errors = 0 /\ run.total_errors = 0

\* C29: after a registration build in which no node and no edge insert
\* failed, every registration edge targets a stored document node, every
\* satellite with a canonical registration document has exactly one
\* outgoing registration edge and the others none, and the satellite_count
\* of every node is the number of registration edges that target it.
C29_RegistrationGraphConsistent ==
    BuiltWithoutErrors =>
        /\ \A e \in reg_edges : e._to[2] \in DOMAIN reg_docs
        /\ \A k \in DOMAIN satellites :
               Cardinality(RegistrationOut(k)) = IF k \in Registered THEN 1 ELSE 0
        /\ \A key \in DOMAIN reg_docs :
               reg_docs[key].satellite_count = Cardinality(RegistrationIn(key))

\* a build without errors that stored two nodes, one of them with two
\* satellites, and three edges
C29_Witness ==
    /\ BuiltWithoutErrors
    /\ Cardinality(DOMAIN reg_docs) = 2
    /\ \E key \in DOMAIN reg_docs : reg_docs[key].satellite_count = 2
    /\ Cardinality(reg_edges) = 3

----------------------------------------------------------------------------
(* Claims about the hub returned by get_constellation_graph *)

\* the response names the hub the build designated for the label, lists it
\* among the nodes, and returns one edge to it per member shown
HubResponse(request) ==
    LET data == request.response.data
        hub_id == SatelliteId(run.constellation_hubs[request.constellation_name])
    IN  /\ "message" \notin DOMAIN request.response
        /\ data.stats.has_hub
        /\ data.hub.id = hub_id
        /\ data.hub \in data.nodes
        /\ data.edges # {}
        /\ \A e \in data.edges : e.target = hub_id
        /\ Cardinality(data.edges) = data.stats.members
        /\ data.stats.total_satellites = data.stats.members + 1

\* C30: a get_constellation_graph call made when the last build was a
\* constellation build returns the hub, among the nodes and as target of
\* every returned edge, with as many edges as members shown, exactly when
\* two or more satellites carry the label; for a label carried by one
\* satellite, or none, it returns the empty shape with its message.
C30_HubOnlyThroughEdges ==
    [][(/\ last' # last
        /\ last'.op = "get_constellation_graph"
        /\ ConstellationBuilt)
           => IF Cardinality(MembersOf(last'.constellation_name)) >= 2
              THEN HubResponse(last')
              ELSE EmptyGraphResponse(last')]_vars

\* after a build over three satellites of one label, a call with limit 1
\* returned the hub and one member
C30_Witness ==
    /\ ConstellationBuilt
    /\ last.op = "get_constellation_graph"
    /\ last.limit = 1
    /\ Cardinality(MembersOf(last.constellation_name)) = 3
    /\ HubResponse(last)
    /\ last.response.data.stats.members = 1

============================================================================
